---- MODULE Spec2Model ----
(***************************************************************************)
(* A model of libtjson: the JSON node heap (JNode / JArray / JObject /     *)
(* JVar), the constructors, JSON_ArrayAdd / JSON_ObjectAdd, the lookups    *)
(* JSON_Index / JSON_Attribute / JSON_Find, JSON_Iterate, JSON_Free and    *)
(* the yacc grammar that builds a tree from a token stream.                *)
(*                                                                         *)
(* Pointers are node ids 1..Len(heap); NULL is 0.  A char* that may be     *)
(* NULL is a sequence of length 0 (NULL) or 1 (the string).                *)
(***************************************************************************)
EXTENDS Integers, Sequences, FiniteSets, TLC

VARIABLES heap, root, hist, parsed, held, last, threads, yy_buffer

vars == <<heap, root, hist, parsed, held, last, threads, yy_buffer>>

\* ---------------------------------------------------------------- bounds
MaxNodes == 3

MaxAdds == 2
\* the longest quoted literal decoded, in characters and escape pairs
MaxUnits == 5

\* ------------------------------------------------------ program constants
NULL == 0
EOK == 0
EINVAL == 22
ENOTSUP == 95

JSON_INVALID == 0
JSON_ARRAY == 1
JSON_OBJECT == 2
JSON_VAR == 3
JSON_BOOL == 4

JVARTYPE_INVALID == 0
JVARTYPE_UINT16 == 1
JVARTYPE_INT16 == 2
JVARTYPE_UINT32 == 3
JVARTYPE_INT32 == 4
JVARTYPE_UINT64 == 5
JVARTYPE_INT64 == 6
JVARTYPE_FLOAT == 7
JVARTYPE_STR == 8

\* a C string is the sequence of its characters; a char* is NOSTR (NULL) or
\* Str(s)
NOSTR == <<>>

Str(s) == <<s>>

\* the names, keys and string payloads the callers pass
Names == {NOSTR, Str(<<"x">>)}

Keys == {NOSTR, Str(<<"x">>), Str(<<"y">>)}

Payloads == {Str(<<"s">>)}

NodeIds == 1..Len(heap)

\* --------------------------------------------------------------- the heap
\* calloc( 1, sizeof( JArray / JObject / JVar ) ); live: not yet passed to free
ZeroNode ==
    [live |-> TRUE, type |-> JSON_INVALID, name |-> NOSTR, pNext |-> NULL,
     n |-> 0, pFirst |-> NULL, pLast |-> NULL,
     vtype |-> JVARTYPE_INVALID, len |-> 0,
     val |-> [neg |-> FALSE, mag |-> <<0>>], str |-> NOSTR,
     f |-> [int |-> [neg |-> FALSE, mag |-> <<0>>], frac |-> <<>>]]

JSON_Array(name) == [ZeroNode EXCEPT !.name = name, !.type = JSON_ARRAY]

JSON_Object(name) == [ZeroNode EXCEPT !.name = name, !.type = JSON_OBJECT]

JSON_Var(name) == [ZeroNode EXCEPT !.name = name, !.type = JSON_VAR]

\* the decimal digits of an int that is not negative
RECURSIVE IntMag(_)
IntMag(n) == IF n < 10 THEN <<n>> ELSE Append(IntMag(n \div 10), n % 10)

\* JVar *JSON_Num( char *name, int num ), for num >= 0
JSON_Num(name, num) ==
    [JSON_Var(name) EXCEPT !.vtype = JVARTYPE_UINT32, !.len = 4,
                           !.val = [neg |-> FALSE, mag |-> IntMag(num)]]

JSON_Bool(name, num) ==
    [JSON_Var(name) EXCEPT !.type = JSON_BOOL, !.vtype = JVARTYPE_UINT16,
                           !.len = 2,
                           !.val = [neg |-> FALSE,
                                    mag |-> IF num > 0 THEN <<1>> ELSE <<0>>]]

JSON_Str(name, str) ==
    IF str # NOSTR
    THEN [JSON_Var(name) EXCEPT !.vtype = JVARTYPE_STR, !.str = str,
                                !.len = Len(str[1])]
    ELSE JSON_Var(name)

\* ------------------------------------------------------------- insertion
\* JSON_ArrayAdd that moves pLast without linking the old last node to the new
JSON_ArrayAdd_NoLink(h, pArray, pObject) ==
    IF pArray # NULL /\ pObject # NULL
    THEN IF h[pArray].type = JSON_ARRAY
         THEN IF h[pArray].pFirst = NULL
              THEN [heap |-> [h EXCEPT ![pArray].pFirst = pObject,
                                       ![pArray].pLast = pObject],
                    ret |-> EOK]
              ELSE IF h[pArray].pLast # NULL
                   THEN [heap |-> [h EXCEPT ![pArray].pLast = pObject],
                         ret |-> EOK]
                   ELSE [heap |-> h, ret |-> EINVAL]
         ELSE [heap |-> h, ret |-> ENOTSUP]
    ELSE [heap |-> h, ret |-> EINVAL]

\* int JSON_ArrayAdd( JArray *pArray, JObject *pObject ): the new heap and the
\* returned code
JSON_ArrayAdd(h, pArray, pObject) ==
    IF pArray # NULL /\ pObject # NULL
    THEN IF h[pArray].type = JSON_ARRAY
         THEN IF h[pArray].pFirst = NULL
              THEN [heap |-> [h EXCEPT ![pArray].pFirst = pObject,
                                       ![pArray].pLast = pObject],
                    ret |-> EOK]
              ELSE IF h[pArray].pLast # NULL
                   THEN [heap |-> [h EXCEPT ![h[pArray].pLast].pNext = pObject,
                                            ![pArray].pLast = pObject],
                         ret |-> EOK]
                   ELSE [heap |-> h, ret |-> EINVAL]
         ELSE [heap |-> h, ret |-> ENOTSUP]
    ELSE [heap |-> h, ret |-> EINVAL]

\* JSON_ObjectAdd without the check of the container's kind
JSON_ObjectAdd_AnyKind(h, pObject, pNode) ==
    IF pObject # NULL /\ pNode # NULL
    THEN IF h[pObject].pFirst = NULL
         THEN [heap |-> [h EXCEPT ![pObject].pFirst = pNode,
                                  ![pObject].pLast = pNode],
               ret |-> EOK]
         ELSE IF h[pObject].pLast # NULL
              THEN [heap |-> [h EXCEPT ![h[pObject].pLast].pNext = pNode,
                                       ![pObject].pLast = pNode],
                    ret |-> EOK]
              ELSE [heap |-> h, ret |-> EINVAL]
    ELSE [heap |-> h, ret |-> EINVAL]

\* int JSON_ObjectAdd( JObject *pObject, JNode *pNode )
JSON_ObjectAdd(h, pObject, pNode) ==
    IF pObject # NULL /\ pNode # NULL
    THEN IF h[pObject].type = JSON_OBJECT
         THEN IF h[pObject].pFirst = NULL
              THEN [heap |-> [h EXCEPT ![pObject].pFirst = pNode,
                                       ![pObject].pLast = pNode],
                    ret |-> EOK]
              ELSE IF h[pObject].pLast # NULL
                   THEN [heap |-> [h EXCEPT ![h[pObject].pLast].pNext = pNode,
                                            ![pObject].pLast = pNode],
                         ret |-> EOK]
                   ELSE [heap |-> h, ret |-> EINVAL]
         ELSE [heap |-> h, ret |-> ENOTSUP]
    ELSE [heap |-> h, ret |-> EINVAL]

\* --------------------------------------------------------------- lookups
\* the result of a call that never returns (an endless loop or recursion)
DIVERGE == -1

\* the while loop of JSON_Index
RECURSIVE index_loop(_, _, _, _)
index_loop(h, pNode, n, idx) ==
    IF pNode = NULL THEN NULL
    ELSE IF idx = n THEN pNode
    ELSE index_loop(h, h[pNode].pNext, n + 1, idx)

\* JNode *JSON_Index( JArray *pArray, size_t idx )
JSON_Index(h, pArray, idx) ==
    IF pArray # NULL
    THEN IF h[pArray].type = JSON_ARRAY
         THEN index_loop(h, h[pArray].pFirst, 0, idx)
         ELSE NULL
    ELSE NULL

\* strcmp( a, b ) == 0 for two non-null strings
StrEq(a, b) == a[1] = b[1]

\* the loop of JSON_Attribute without the break: the last match wins
RECURSIVE attribute_loop_last(_, _, _, _)
attribute_loop_last(h, pNode, attribute, fuel) ==
    IF pNode = NULL THEN NULL
    ELSE IF fuel = 0 THEN DIVERGE
    ELSE LET rest == attribute_loop_last(h, h[pNode].pNext, attribute, fuel - 1) IN
         IF rest = NULL /\ h[pNode].name # NOSTR /\ StrEq(h[pNode].name, attribute)
         THEN pNode ELSE rest

\* the while loop of JSON_Attribute; a loop that has looked at more nodes than
\* the heap holds without reaching NULL is in a cycle without a match
RECURSIVE attribute_loop(_, _, _, _)
attribute_loop(h, pNode, attribute, fuel) ==
    IF pNode = NULL THEN NULL
    ELSE IF fuel = 0 THEN DIVERGE
    ELSE IF h[pNode].name # NOSTR /\ StrEq(h[pNode].name, attribute) THEN pNode
    ELSE attribute_loop(h, h[pNode].pNext, attribute, fuel - 1)

\* JNode *JSON_Attribute( JObject *pObject, char *attribute )
JSON_Attribute(h, pObject, attribute) ==
    IF pObject # NULL /\ attribute # NOSTR
    THEN IF h[pObject].type = JSON_OBJECT
         THEN attribute_loop(h, h[pObject].pFirst, attribute, Len(h))
         ELSE NULL
    ELSE NULL

\* JSON_Find that does not look inside arrays
RECURSIVE find_rec_noarray(_, _, _, _)
find_rec_noarray(h, json, key, fuel) ==
    IF key # NOSTR /\ json # NULL
    THEN IF fuel = 0 THEN DIVERGE
         ELSE LET self == IF h[json].name # NOSTR /\ StrEq(key, h[json].name)
                          THEN json ELSE NULL
                  found == IF self = NULL /\ h[json].type = JSON_OBJECT
                           THEN find_rec_noarray(h, h[json].pFirst, key, fuel - 1)
                           ELSE self
              IN  IF found = NULL
                  THEN find_rec_noarray(h, h[json].pNext, key, fuel - 1)
                  ELSE found
    ELSE NULL

\* JNode *JSON_Find( JNode *json, char *key ); a recursion deeper than the
\* number of nodes has a node twice on its call stack and never returns
RECURSIVE find_rec(_, _, _, _)
find_rec(h, json, key, fuel) ==
    IF key # NOSTR /\ json # NULL
    THEN IF fuel = 0 THEN DIVERGE
         ELSE LET self == IF /\ h[json].type \in {JSON_ARRAY, JSON_OBJECT, JSON_BOOL, JSON_VAR}
                             /\ h[json].name # NOSTR
                             /\ StrEq(key, h[json].name)
                          THEN json ELSE NULL
                  found == IF self = NULL /\ h[json].type \in {JSON_ARRAY, JSON_OBJECT}
                           THEN find_rec(h, h[json].pFirst, key, fuel - 1)
                           ELSE self
              IN  IF found = NULL
                  THEN find_rec(h, h[json].pNext, key, fuel - 1)
                  ELSE found
    ELSE NULL

JSON_Find(h, json, key) == find_rec(h, json, key, Len(h))

\* int JSON_Iterate( JArray *pArray, int (*fn)(JNode *, void *), void *arg ).
\* fn is given by the values its successive invocations return (rcs, then EOK);
\* the result is the returned code and the invocations made, in order.
FnReturn(rcs, k) == IF k <= Len(rcs) THEN rcs[k] ELSE EOK

\* the loop of JSON_Iterate stopping at the first failure
RECURSIVE iterate_loop_break(_, _, _, _, _, _)
iterate_loop_break(h, pNode, rcs, result, calls, fuel) ==
    IF pNode = NULL \/ result # EOK THEN [ret |-> result, calls |-> calls]
    ELSE IF fuel = 0 THEN [ret |-> DIVERGE, calls |-> calls]
    ELSE LET rc == FnReturn(rcs, Len(calls) + 1) IN
         iterate_loop_break(h, h[pNode].pNext, rcs,
                            IF rc # EOK THEN rc ELSE result,
                            Append(calls, <<pNode, rc>>), fuel - 1)

\* the while loop of JSON_Iterate
RECURSIVE iterate_loop(_, _, _, _, _, _)
iterate_loop(h, pNode, rcs, result, calls, fuel) ==
    IF pNode = NULL THEN [ret |-> result, calls |-> calls]
    ELSE IF fuel = 0 THEN [ret |-> DIVERGE, calls |-> calls]
    ELSE LET rc == FnReturn(rcs, Len(calls) + 1) IN
         iterate_loop(h, h[pNode].pNext, rcs,
                      IF rc # EOK THEN rc ELSE result,
                      Append(calls, <<pNode, rc>>), fuel - 1)

JSON_Iterate(h, pArray, fnNull, rcs) ==
    IF pArray # NULL /\ ~fnNull
    THEN IF h[pArray].type = JSON_ARRAY
         THEN iterate_loop(h, h[pArray].pFirst, rcs, EOK, <<>>, Len(h))
         ELSE [ret |-> ENOTSUP, calls |-> <<>>]
    ELSE [ret |-> EINVAL, calls |-> <<>>]

\* ------------------------------------------------------------ destruction
\* void JSON_Free( JNode *json ): the heap afterwards and the log of what was
\* released (the name, the string payload, the node) and of the reads of a
\* child's pNext, in program order
Ev(e, node) == [ev |-> e, node |-> node]

RECURSIVE free_rec(_, _, _), free_children(_, _, _)
free_rec(h, json, log) ==
    IF json = NULL THEN [heap |-> h, log |-> log]
    ELSE LET log1 == IF h[json].name # NOSTR
                     THEN Append(log, Ev("free_name", json)) ELSE log
             kids == IF h[json].type \in {JSON_ARRAY, JSON_OBJECT}
                     THEN free_children(h, h[json].pFirst, log1)
                     ELSE IF /\ h[json].type \in {JSON_BOOL, JSON_VAR}
                             /\ h[json].vtype = JVARTYPE_STR
                             /\ h[json].str # NOSTR
                          THEN [heap |-> h, log |-> Append(log1, Ev("free_str", json))]
                          ELSE [heap |-> h, log |-> log1]
         IN  [heap |-> [kids.heap EXCEPT ![json] = [ZeroNode EXCEPT !.live = FALSE]],
              log |-> Append(kids.log, Ev("free_node", json))]

\* the loop of JSON_Free reading pNode->pNext after JSON_Free( pDelete ), from
\* the zeroed node
free_children_late(h, pNode, log) ==
    IF pNode = NULL THEN [heap |-> h, log |-> log]
    ELSE LET r == free_rec(h, pNode, log)
             next == r.heap[pNode].pNext
         IN  free_children(r.heap, next, Append(r.log, Ev("read_next", pNode)))

\* the while loops of JSON_Free over the children of an Array or Object
free_children(h, pNode, log) ==
    IF pNode = NULL THEN [heap |-> h, log |-> log]
    ELSE LET pDelete == pNode
             next == h[pNode].pNext
             r == free_rec(h, pDelete, Append(log, Ev("read_next", pNode)))
         IN  free_children(r.heap, next, r.log)

JSON_Free(h, json) == free_rec(h, json, <<>>)

\* ------------------------------------------------------------ the lexer
\* A token is its terminal and, for NUM, FLOAT and CHARSTR, the matched text
\* (yytext).  CHARSTR text includes both quote characters.
Tok(t) == [t |-> t, text |-> <<>>]

TokNum(text) == [t |-> "NUM", text |-> text]

TokFloat(text) == [t |-> "FLOAT", text |-> text]

TokStr(text) == [t |-> "CHARSTR", text |-> <<"\"">> \o text \o <<"\"">>]

\* ---------------------------------------------------- number conversion
\* A 64-bit integer value is kept as its sign and the decimal digits of its
\* magnitude, most significant first and without leading zeros (<<0>> is 0),
\* so that the whole range of int64_t and uint64_t is compared exactly.
Digits == <<"0", "1", "2", "3", "4", "5", "6", "7", "8", "9">>

DigitVal(c) == CHOOSE d \in 0..9 : Digits[d + 1] = c

Pos(mag) == [neg |-> FALSE, mag |-> mag]

Neg(mag) == [neg |-> TRUE, mag |-> mag]

\* the magnitude without leading zeros
RECURSIVE Norm(_)
Norm(ds) == IF Len(ds) > 1 /\ Head(ds) = 0 THEN Norm(Tail(ds)) ELSE ds

\* a < b on digit sequences of the same length
RECURSIVE LexLess(_, _)
LexLess(a, b) ==
    IF a = <<>> THEN FALSE
    ELSE IF Head(a) # Head(b) THEN Head(a) < Head(b)
    ELSE LexLess(Tail(a), Tail(b))

\* a < b on magnitudes
MagLess(a, b) == Len(a) < Len(b) \/ (Len(a) = Len(b) /\ LexLess(a, b))

\* x < y on integer values
Less(x, y) ==
    IF x.neg /\ ~y.neg THEN TRUE
    ELSE IF ~x.neg /\ y.neg THEN FALSE
    ELSE IF x.neg THEN MagLess(y.mag, x.mag)
    ELSE MagLess(x.mag, y.mag)

\* the limits of the 64-bit types
LLONG_MAX == Pos(<<9, 2, 2, 3, 3, 7, 2, 0, 3, 6, 8, 5, 4, 7, 7, 5, 8, 0, 7>>)

LLONG_MIN == Neg(<<9, 2, 2, 3, 3, 7, 2, 0, 3, 6, 8, 5, 4, 7, 7, 5, 8, 0, 8>>)

ULLONG_MAX == Pos(<<1, 8, 4, 4, 6, 7, 4, 4, 0, 7, 3, 7, 0, 9, 5, 5, 1, 6, 1, 5>>)

\* the digits of a literal as a magnitude
DigitsMag(text) ==
    IF text = <<>> THEN <<0>> ELSE Norm([i \in 1..Len(text) |-> DigitVal(text[i])])

\* strtoull( numstr, NULL, 10 ) on a literal without a sign: its value, or
\* ULLONG_MAX when the value is out of range
strtoull(text) ==
    LET v == Pos(DigitsMag(text)) IN
    IF Less(ULLONG_MAX, v) THEN ULLONG_MAX ELSE v

\* strtoll( numstr, NULL, 10 ) on a literal with or without a '-': its value,
\* or LLONG_MIN / LLONG_MAX when the value is out of range
strtoll(text) ==
    IF text # <<>> /\ Head(text) = "-"
    THEN LET m == DigitsMag(Tail(text))
             v == IF m = <<0>> THEN Pos(m) ELSE Neg(m)
         IN  IF Less(v, LLONG_MIN) THEN LLONG_MIN ELSE v
    ELSE LET v == Pos(DigitsMag(text)) IN
         IF Less(LLONG_MAX, v) THEN LLONG_MAX ELSE v

\* the Var node of a number of the given kind and width
NumVar(name, vtype, len, val) ==
    [JSON_Var(name) EXCEPT !.vtype = vtype, !.len = len, !.val = val]

\* JSON_ParseNumber with the limits of each width included in that width
JSON_ParseNumber_Inclusive(name, numstr) ==
    IF numstr = NOSTR THEN JSON_Var(name)
    ELSE LET text == numstr[1]
             lli == strtoll(text)
             llu == strtoull(text)
         IN  IF Head(text) = "-"
             THEN IF ~Less(lli, Neg(<<3, 2, 7, 6, 8>>))
                  THEN NumVar(name, JVARTYPE_INT16, 2, lli)
                  ELSE IF ~Less(lli, Neg(<<2, 1, 4, 7, 4, 8, 3, 6, 4, 8>>))
                       THEN NumVar(name, JVARTYPE_INT32, 4, lli)
                       ELSE NumVar(name, JVARTYPE_INT64, 8, lli)
             ELSE IF Less(llu, Pos(<<6, 5, 5, 3, 6>>))
                  THEN NumVar(name, JVARTYPE_UINT16, 2, llu)
                  ELSE IF Less(llu, Pos(<<4, 2, 9, 4, 9, 6, 7, 2, 9, 6>>))
                       THEN NumVar(name, JVARTYPE_UINT32, 4, llu)
                       ELSE NumVar(name, JVARTYPE_UINT64, 8, llu)

\* JVar *JSON_ParseNumber( char *name, char *numstr )
JSON_ParseNumber(name, numstr) ==
    IF numstr = NOSTR THEN JSON_Var(name)
    ELSE LET text == numstr[1]
             lli == strtoll(text)
             llu == strtoull(text)
         IN  IF Head(text) = "-"
             THEN IF Less(Neg(<<3, 2, 7, 6, 8>>), lli)
                     /\ Less(lli, Pos(<<3, 2, 7, 6, 7>>))
                  THEN NumVar(name, JVARTYPE_INT16, 2, lli)
                  ELSE IF Less(Neg(<<2, 1, 4, 7, 4, 8, 3, 6, 4, 8>>), lli)
                          /\ Less(lli, Pos(<<2, 1, 4, 7, 4, 8, 3, 6, 4, 7>>))
                       THEN NumVar(name, JVARTYPE_INT32, 4, lli)
                       ELSE NumVar(name, JVARTYPE_INT64, 8, lli)
             ELSE IF Less(llu, Pos(<<6, 5, 5, 3, 5>>))
                  THEN NumVar(name, JVARTYPE_UINT16, 2, llu)
                  ELSE IF Less(llu, Pos(<<4, 2, 9, 4, 9, 6, 7, 2, 9, 5>>))
                       THEN NumVar(name, JVARTYPE_UINT32, 4, llu)
                       ELSE NumVar(name, JVARTYPE_UINT64, 8, llu)

\* atof on a literal of the form digits . digits: the value as its integer
\* part and its fraction digits
RECURSIVE atof_split(_, _)
atof_split(text, int) ==
    IF text = <<>> THEN [int |-> int, frac |-> <<>>]
    ELSE IF Head(text) = "." THEN [int |-> int, frac |-> Tail(text)]
    ELSE atof_split(Tail(text), Append(int, Head(text)))

atof(text) ==
    LET p == atof_split(text, <<>>) IN [int |-> strtoll(p.int), frac |-> p.frac]

\* JVar *JSON_Float( char *name, float num )
JSON_Float(name, num) ==
    [JSON_Var(name) EXCEPT !.vtype = JVARTYPE_FLOAT, !.f = num, !.len = 4]

\* ------------------------------------------------------ string decoding
\* escape that leaves every character as it is
escape_none(c) == c

\* static char escape( char c ); "NUL" stands for the character '\0'
escape(c) ==
    CASE c = "\\" -> "\\"
      [] c = "0" -> "NUL"
      [] c = "r" -> "\r"
      [] c = "n" -> "\n"
      [] c = "t" -> "\t"
      [] c = "'" -> "'"
      [] c = "\"" -> "\""
      [] OTHER -> c

\* the for loop of get_charstr over s[i..l-2]: the characters written to s[0..j-1]
RECURSIVE charstr_loop(_, _, _, _)
charstr_loop(s, i, state, out) ==
    IF i > Len(s) THEN out
    ELSE IF state = 0
         THEN IF s[i] = "\\"
              THEN charstr_loop(s, i + 1, 1, out)
              ELSE charstr_loop(s, i + 1, 0, Append(out, s[i]))
         ELSE charstr_loop(s, i + 1, 0, Append(out, escape(s[i])))

\* the C string a buffer holds: its characters up to the first NUL
RECURSIVE CString(_)
CString(buf) ==
    IF buf = <<>> \/ Head(buf) = "NUL" THEN <<>>
    ELSE <<Head(buf)>> \o CString(Tail(buf))

\* static char *get_charstr( char *str ): str is a CHARSTR token's text
get_charstr(str) ==
    IF str = NOSTR THEN NOSTR
    ELSE LET s == SubSeq(str[1], 2, Len(str[1]) - 1)
         IN  Str(CString(charstr_loop(s, 1, 0, <<>>)))

\* ----------------------------------------------------------- the grammar
\* The parser state: the heap, the global root, the tokens not yet shifted,
\* and whether yyerror has been called.  A production returns the state and
\* its semantic value $$ (val: a node, str: the char* of a key).
PState(h, r, toks) == [heap |-> h, root |-> r, toks |-> toks, err |-> FALSE,
                       val |-> NULL, str |-> NOSTR]

Look(ps) == IF ps.toks = <<>> THEN "$end" ELSE Head(ps.toks).t

yytext(ps) == Str(Head(ps.toks).text)

Shift(ps) == [ps EXCEPT !.toks = Tail(@)]

SyntaxError(ps) == [ps EXCEPT !.err = TRUE, !.val = NULL]

\* a grammar action allocates a node
New(ps, node) == [ps EXCEPT !.heap = Append(@, node), !.val = Len(ps.heap) + 1]

RECURSIVE p_json(_), p_json_object(_), p_json_list(_), p_value_list(_)
RECURSIVE p_attribute_list(_), p_attribute(_), p_value(_)

\* key : CHARSTR
p_key(ps) ==
    IF Look(ps) = "CHARSTR"
    THEN [Shift(ps) EXCEPT !.str = get_charstr(yytext(ps))]
    ELSE SyntaxError(ps)

\* value : NUM | FLOAT | TRUE | FALSE | CHARSTR | json
p_value(ps) ==
    CASE Look(ps) = "NUM" ->
            New(Shift(ps), JSON_ParseNumber(NOSTR, yytext(ps)))
      [] Look(ps) = "FLOAT" ->
            New(Shift(ps), JSON_Float(NOSTR, atof(yytext(ps)[1])))
      [] Look(ps) = "TRUE" -> New(Shift(ps), JSON_Bool(NOSTR, 1))
      [] Look(ps) = "FALSE" -> New(Shift(ps), JSON_Bool(NOSTR, 0))
      [] Look(ps) = "CHARSTR" ->
            New(Shift(ps), JSON_Str(NOSTR, get_charstr(yytext(ps))))
      [] Look(ps) \in {"LBRACKET", "LBRACE"} -> p_json(ps)
      [] OTHER -> SyntaxError(ps)

\* attribute : key COLON value, after the value: $$ = $3 with name = $1
attribute_action(k, v) ==
    IF v.err THEN v ELSE [v EXCEPT !.heap[v.val].name = k.str]

\* attribute : key COLON value, after the key
attribute_value(k) ==
    IF k.err THEN k
    ELSE IF Look(k) # "COLON" THEN SyntaxError(k)
    ELSE attribute_action(k, p_value(Shift(k)))

p_attribute(ps) == attribute_value(p_key(ps))

\* x COMMA x_list with the link the other way round: $3->pNext = $1, $$ = $3
list_action_reversed(x, l) ==
    IF l.err THEN l
    ELSE [l EXCEPT !.heap[l.val].pNext = x.val]

\* x COMMA x_list: $1->pNext = $3 and $$ = $1
list_action(x, l) ==
    IF l.err THEN l
    ELSE [l EXCEPT !.heap[x.val].pNext = l.val, !.val = x.val]

\* attribute_list : attribute COMMA attribute_list | attribute, after the
\* first attribute
attribute_list_rest(a) ==
    IF a.err THEN a
    ELSE IF Look(a) = "COMMA"
         THEN list_action(a, p_attribute_list(Shift(a)))
         ELSE a

p_attribute_list(ps) == attribute_list_rest(p_attribute(ps))

\* value_list : value COMMA value_list | value, after the first value
value_list_rest(v) ==
    IF v.err THEN v
    ELSE IF Look(v) = "COMMA"
         THEN list_action(v, p_value_list(Shift(v)))
         ELSE v

p_value_list(ps) == value_list_rest(p_value(ps))

\* the closing token of json_object / json_list and the action: $$ is a new
\* container of the given kind with pFirst = $2
container_action(l, close, node) ==
    IF l.err THEN l
    ELSE IF Look(l) # close THEN SyntaxError(l)
    ELSE New(Shift(l), [node EXCEPT !.pFirst = l.val])

\* json_object : LBRACE attribute_list RBRACE
p_json_object(ps) ==
    IF Look(ps) # "LBRACE" THEN SyntaxError(ps)
    ELSE container_action(p_attribute_list(Shift(ps)), "RBRACE",
                          JSON_Object(NOSTR))

\* json_list with the alternative  LBRACKET RBRACKET  for an empty array
p_json_list_empty(ps) ==
    IF Look(ps) # "LBRACKET" THEN SyntaxError(ps)
    ELSE IF Look(Shift(ps)) = "RBRACKET"
         THEN New(Shift(Shift(ps)), JSON_Array(NOSTR))
         ELSE container_action(p_value_list(Shift(ps)), "RBRACKET",
                               JSON_Array(NOSTR))

\* json_list : LBRACKET value_list RBRACKET
p_json_list(ps) ==
    IF Look(ps) # "LBRACKET" THEN SyntaxError(ps)
    ELSE container_action(p_value_list(Shift(ps)), "RBRACKET",
                          JSON_Array(NOSTR))

\* the json action with root written only by a container whose first two
\* children are not containers: the write of a nested json is the one that stays
json_action_nested(j) ==
    IF j.err THEN j
    ELSE LET f == j.heap[j.val].pFirst
             n == j.heap[f].pNext
         IN  IF \/ j.heap[f].type \in {JSON_ARRAY, JSON_OBJECT}
                \/ n # NULL /\ j.heap[n].type \in {JSON_ARRAY, JSON_OBJECT}
             THEN j
             ELSE [j EXCEPT !.root = j.val]

\* json : ... { root = $$; }
json_action(j) == IF j.err THEN j ELSE [j EXCEPT !.root = j.val]

\* json : json_list | json_object
p_json(ps) ==
    json_action(CASE Look(ps) = "LBRACKET" -> p_json_list(ps)
                  [] Look(ps) = "LBRACE" -> p_json_object(ps)
                  [] OTHER -> SyntaxError(ps))

\* the end of yyparse: the input is accepted when nothing follows the json
yyaccept(j) ==
    IF j.err THEN [ps |-> j, rc |-> 1]
    ELSE IF Look(j) # "$end" THEN [ps |-> SyntaxError(j), rc |-> 1]
    ELSE [ps |-> j, rc |-> 0]

\* int yyparse( void ) over the token stream of the input: the parser state
\* at the end and the result, 0 when the input is accepted and 1 otherwise
yyparse(h, r, toks) == yyaccept(p_json(PState(h, r, toks)))

\* the end of JSON_ProcessBuffer without the test of rc
process_result_any(p) ==
    [heap |-> p.ps.heap, root |-> p.ps.root, ret |-> p.ps.root]

\* the end of JSON_ProcessBuffer: node = root only if rc == 0
process_result(p) ==
    [heap |-> p.ps.heap, root |-> p.ps.root,
     ret |-> IF p.rc = 0 THEN p.ps.root ELSE NULL]

\* JNode *JSON_ProcessBuffer( char *buf ): buf is given by its token stream
JSON_ProcessBuffer(h, r, toks) == process_result(yyparse(h, r, toks))

\* ------------------------------------------------- the lexer on a buffer
DigitChars == {"0", "1", "2", "3", "4", "5", "6", "7", "8", "9"}

\* letter [a-zA-Z\_]
LetterChars ==
    { "a", "b", "c", "d", "e", "f", "g", "h", "i", "j", "k", "l", "m", "n", "o",
      "p", "q", "r", "s", "t", "u", "v", "w", "x", "y", "z", "A", "B", "C", "D",
      "E", "F", "G", "H", "I", "J", "K", "L", "M", "N", "O", "P", "Q", "R", "S",
      "T", "U", "V", "W", "X", "Y", "Z", "_" }

\* the number of characters of text from position i on that are in S
RECURSIVE run(_, _, _)
run(text, i, S) ==
    IF i <= Len(text) /\ text[i] \in S THEN 1 + run(text, i + 1, S) ELSE 0

\* the length of the match of  num [-]?({digit}|({nzdigit}{digit}*))  at i
num_len(text, i) ==
    LET s == IF text[i] = "-" THEN 1 ELSE 0
        j == i + s
    IN  IF j > Len(text) \/ text[j] \notin DigitChars THEN 0
        ELSE IF text[j] = "0" THEN s + 1
        ELSE s + run(text, j, DigitChars)

\* the length of the match of  ([eE][-+]?[0-9]+)?  at k
exp_len(text, k) ==
    IF k <= Len(text) /\ text[k] \in {"e", "E"}
    THEN LET s == IF k + 1 <= Len(text) /\ text[k + 1] \in {"-", "+"} THEN 1 ELSE 0
             d == run(text, k + 1 + s, DigitChars)
         IN  IF d = 0 THEN 0 ELSE 1 + s + d
    ELSE 0

\* the length of the match of
\* floatnum [-+]?[0-9]*\.[0-9]+([eE][-+]?[0-9]+)?  at i
float_len(text, i) ==
    LET s == IF text[i] \in {"-", "+"} THEN 1 ELSE 0
        d == run(text, i + s, DigitChars)
        j == i + s + d
    IN  IF j > Len(text) \/ text[j] # "." THEN 0
        ELSE LET fr == run(text, j + 1, DigitChars) IN
             IF fr = 0 THEN 0
             ELSE s + d + 1 + fr + exp_len(text, j + 1 + fr)

\* the position of the closing quote of  charstr \"([^"\\]|\\.)*\"  whose
\* body starts at j, or 0 when there is no match
RECURSIVE charstr_end(_, _)
charstr_end(text, j) ==
    IF j > Len(text) THEN 0
    ELSE IF text[j] = "\"" THEN j
    ELSE IF text[j] = "\\"
         THEN IF j + 1 > Len(text) \/ text[j + 1] = "\n" THEN 0
              ELSE charstr_end(text, j + 2)
    ELSE charstr_end(text, j + 1)

\* the token of a single character that is a rule of its own
Punct(c) ==
    CASE c = "{" -> "LBRACE" [] c = "}" -> "RBRACE"
      [] c = "[" -> "LBRACKET" [] c = "]" -> "RBRACKET"
      [] c = "," -> "COMMA" [] c = ";" -> "SEMI" [] c = ":" -> "COLON"

\* the token of the match of  id {letter}({letter}|{digit})*: the rules of
\* true and false come first and win a match of the same length
Word(w) ==
    IF w = <<"t", "r", "u", "e">> THEN Tok("TRUE")
    ELSE IF w = <<"f", "a", "l", "s", "e">> THEN Tok("FALSE")
    ELSE [t |-> "ID", text |-> w]

\* the tokens yylex returns for the buffer from position i on, for a buffer
\* without // comments: the longest match wins, white space has no action,
\* and a character no rule matches is echoed and skipped
RECURSIVE yylex(_, _)
yylex(text, i) ==
    IF i > Len(text) THEN <<>>
    ELSE LET c == text[i]
             n == num_len(text, i)
             f == float_len(text, i)
             w == 1 + run(text, i + 1, LetterChars \cup DigitChars)
             q == charstr_end(text, i + 1)
         IN  CASE c \in {"{", "}", "[", "]", ",", ";", ":"} ->
                    <<Tok(Punct(c))>> \o yylex(text, i + 1)
               [] c \in LetterChars ->
                    <<Word(SubSeq(text, i, i + w - 1))>> \o yylex(text, i + w)
               [] c = "\"" /\ q # 0 ->
                    <<[t |-> "CHARSTR", text |-> SubSeq(text, i, q)]>>
                    \o yylex(text, q + 1)
               [] f > n ->
                    <<TokFloat(SubSeq(text, i, i + f - 1))>> \o yylex(text, i + f)
               [] n > 0 /\ n >= f ->
                    <<TokNum(SubSeq(text, i, i + n - 1))>> \o yylex(text, i + n)
               [] c = "." /\ f = 0 -> <<Tok("DOT")>> \o yylex(text, i + 1)
               [] OTHER -> yylex(text, i + 1)

\* JNode *JSON_ProcessBuffer( char *buf ) on the characters of buf
ProcessText(h, r, buf) == JSON_ProcessBuffer(h, r, yylex(buf, 1))

\* the end of JSON_Process on a file that was opened: node = root
process_file_result(p) ==
    [heap |-> p.ps.heap, root |-> p.ps.root, ret |-> p.ps.root, rc |-> p.rc,
     opened |-> {"yyin"}, closed |-> <<"yyin">>]

\* JNode *JSON_Process( char *inputFile ): opened tells whether inputFile is
\* not NULL and fopen succeeds, toks is the token stream of the file; rc is
\* the result of yyparse, -1 when it was not called
JSON_Process(h, r, opened, toks) ==
    IF opened THEN process_file_result(yyparse(h, r, toks))
    ELSE [heap |-> h, root |-> r, ret |-> NULL, rc |-> -1,
          opened |-> {}, closed |-> <<>>]

\* the end of JSON_Parse once both files are settled: yyparse(), the print
\* of root to stdout (which changes no state), fclose( fp ) and return 0
parse_result(in, out, p) ==
    [heap |-> p.ps.heap, root |-> p.ps.root, ret |-> 0, rc |-> p.rc,
     opened |-> (IF in = "ok" THEN {"yyin"} ELSE {})
                \cup (IF out = "ok" THEN {"fp"} ELSE {}),
     closed |-> IF out = "ok" THEN <<"fp">> ELSE <<"stdout">>]

\* int JSON_Parse( char *inputFile, char *outputFile, bool debug ): in and
\* out tell whether each name is NULL ("null"), cannot be opened ("fail") or
\* is opened ("ok"); toks is the token stream yylex reads from yyin.  opened
\* and closed are the streams the call opens and closes; rc is the result of
\* yyparse, -1 when it was not called
JSON_Parse(h, r, in, out, toks) ==
    IF in = "fail" \/ out = "fail"
    THEN [heap |-> h, root |-> r, ret |-> -1, rc |-> -1,
          opened |-> IF in = "ok" THEN {"yyin"} ELSE {}, closed |-> <<>>]
    ELSE parse_result(in, out, yyparse(h, r, toks))

\* ------------------------------------------------------------ printing
\* a - b on magnitudes of the same length with a >= b, digit by digit from the
\* right; borrow is 0 or 1
RECURSIVE sub_digits(_, _, _)
sub_digits(a, b, borrow) ==
    IF a = <<>> THEN <<>>
    ELSE LET k == Len(a)
             d == a[k] - b[k] - borrow
         IN  Append(sub_digits(SubSeq(a, 1, k - 1), SubSeq(b, 1, k - 1),
                               IF d < 0 THEN 1 ELSE 0),
                    IF d < 0 THEN d + 10 ELSE d)

\* the decimal text printf writes for an integer value
DecText(v) ==
    (IF v.neg THEN <<"-">> ELSE <<>>) \o [i \in 1..Len(v.mag) |-> Digits[v.mag[i] + 1]]

\* what a build may write for "%d" given a uint32_t above INT_MAX: the value
\* read as an int ("wrap") or the value itself ("value")
PrintfOutcomes == {"wrap", "value"}

\* fprintf( fp, "%d", pVar->var.val.ul )
printf_d_ul(v, ub) ==
    IF Less(v, Pos(<<2, 1, 4, 7, 4, 8, 3, 6, 4, 8>>)) \/ ub = "value"
    THEN DecText(v)
    ELSE DecText(Neg(Norm(sub_digits(<<4, 2, 9, 4, 9, 6, 7, 2, 9, 6>>, v.mag, 0))))

\* fprintf( fp, "%f", pVar->var.val.f ) for a value with at most six fraction
\* digits that a float holds exactly: six digits follow the point
printf_f(f) ==
    DecText(f.int) \o <<".">> \o [i \in 1..6 |-> IF i <= Len(f.frac) THEN f.frac[i] ELSE "0"]

\* static void json_PrintValue( JVar *pVar, FILE *fp ): the characters written
json_PrintValue(v, ub) ==
    IF v.type = JSON_BOOL
    THEN IF Less(Pos(<<0>>), v.val) THEN <<"t", "r", "u", "e">>
         ELSE <<"f", "a", "l", "s", "e", " ">>
    ELSE CASE v.vtype = JVARTYPE_UINT16 -> DecText(v.val)
           [] v.vtype = JVARTYPE_UINT32 -> printf_d_ul(v.val, ub)
           [] v.vtype = JVARTYPE_FLOAT -> printf_f(v.f)
           [] v.vtype = JVARTYPE_STR -> <<"\"">> \o v.str[1] \o <<"\"">>
           [] OTHER -> <<>>

\* void JSON_Print( JNode *json, FILE *fp, bool comma ) with fp not NULL: the
\* characters written to fp
RECURSIVE JSON_Print(_, _, _, _), print_children(_, _, _, _)
JSON_Print(h, json, comma, ub) ==
    IF json = NULL THEN <<>>
    ELSE (IF comma THEN <<",">> ELSE <<>>)
         \o (IF h[json].name # NOSTR
             THEN <<"\"">> \o h[json].name[1] \o <<"\"", " ", ":", " ">>
             ELSE <<>>)
         \o CASE h[json].type = JSON_ARRAY ->
                    <<"[">> \o print_children(h, h[json].pFirst, FALSE, ub) \o <<"]">>
              [] h[json].type = JSON_OBJECT ->
                    <<"{">> \o print_children(h, h[json].pFirst, FALSE, ub) \o <<"}">>
              [] h[json].type \in {JSON_BOOL, JSON_VAR} -> json_PrintValue(h[json], ub)
              [] OTHER -> <<>>

\* the loops of JSON_Print with a comma before every child, the first included
print_children_commas(h, pNode, comma, ub) ==
    IF pNode = NULL THEN <<>>
    ELSE JSON_Print(h, pNode, TRUE, ub) \o print_children(h, h[pNode].pNext, TRUE, ub)

\* the while loops of JSON_Print over the children of an Array or Object
print_children(h, pNode, comma, ub) ==
    IF pNode = NULL THEN <<>>
    ELSE JSON_Print(h, pNode, comma, ub) \o print_children(h, h[pNode].pNext, TRUE, ub)

\* ---------------------------------------------------------- typed getters
\* what strcmp( pNode->name, name ) may do when pNode->name is NULL: the read
\* through the null pointer ends the process, or the call reports a difference
StrcmpOutcomes == {"crash", "differ"}

\* the while loop the four typed getters share: the first attribute whose name
\* compares equal and whose node type and variable type are the getter's
RECURSIVE get_loop(_, _, _, _, _, _, _)
get_loop(h, pNode, name, type, vtype, ub, fuel) ==
    IF pNode = NULL THEN [out |-> "return", node |-> NULL]
    ELSE IF fuel = 0 THEN [out |-> "diverge", node |-> NULL]
    ELSE IF h[pNode].name = NOSTR /\ ub = "crash"
         THEN [out |-> "crash", node |-> NULL]
    ELSE IF /\ h[pNode].name # NOSTR
            /\ StrEq(h[pNode].name, name)
            /\ h[pNode].type = type
            /\ h[pNode].vtype = vtype
         THEN [out |-> "return", node |-> pNode]
    ELSE get_loop(h, h[pNode].pNext, name, type, vtype, ub, fuel - 1)

\* the getters' entry check and loop; pVal is <<>> for a null pointer and is
\* never null for the getters without that parameter
get_attribute(h, pNode, name, pValNull, type, vtype, ub) ==
    IF pNode # NULL /\ name # NOSTR /\ ~pValNull
    THEN IF h[pNode].type = JSON_OBJECT
         THEN get_loop(h, h[pNode].pFirst, name, type, vtype, ub, Len(h))
         ELSE [out |-> "return", node |-> NULL]
    ELSE [out |-> "return", node |-> NULL]

\* char *JSON_GetStr( JNode *pNode, char *name )
JSON_GetStr(h, pNode, name, ub) ==
    LET g == get_attribute(h, pNode, name, FALSE, JSON_VAR, JVARTYPE_STR, ub) IN
    [out |-> g.out, node |-> g.node,
     ret |-> IF g.node # NULL THEN h[g.node].str ELSE NOSTR]

\* bool JSON_GetBool( JNode *pNode, char *name )
JSON_GetBool(h, pNode, name, ub) ==
    LET g == get_attribute(h, pNode, name, FALSE, JSON_BOOL, JVARTYPE_UINT16, ub) IN
    [out |-> g.out, node |-> g.node,
     ret |-> IF g.node # NULL THEN h[g.node].val.mag # <<0>> ELSE FALSE]

\* the conversion of a uint32_t to int: values above INT_MAX wrap
ToInt(v) ==
    IF Less(v, [neg |-> FALSE, mag |-> <<2, 1, 4, 7, 4, 8, 3, 6, 4, 8>>]) THEN v
    ELSE [neg |-> TRUE,
          mag |-> Norm(sub_digits(<<4, 2, 9, 4, 9, 6, 7, 2, 9, 6>>, v.mag, 0))]

\* int JSON_GetNum( JNode *pNode, char *name, int *pVal ); val is *pVal after
\* the call
JSON_GetNum(h, pNode, name, pVal, ub) ==
    LET g == get_attribute(h, pNode, name, pVal = <<>>, JSON_VAR, JVARTYPE_UINT32, ub) IN
    [out |-> g.out, node |-> g.node,
     ret |-> IF g.node # NULL THEN 0 ELSE -1,
     val |-> IF g.node # NULL THEN <<ToInt(h[g.node].val)>> ELSE pVal]

\* int JSON_GetFloat( JNode *pNode, char *name, float *pVal )
JSON_GetFloat(h, pNode, name, pVal, ub) ==
    LET g == get_attribute(h, pNode, name, pVal = <<>>, JSON_VAR, JVARTYPE_FLOAT, ub) IN
    [out |-> g.out, node |-> g.node,
     ret |-> IF g.node # NULL THEN 0 ELSE -1,
     val |-> IF g.node # NULL THEN <<h[g.node].f>> ELSE pVal]

\* ------------------------------------------------- structure of the heap
\* the nodes met from p by following pNext, up to NULL or the first repeat
RECURSIVE ChainFrom(_, _, _)
ChainFrom(h, p, seen) ==
    IF p = NULL \/ p \in seen THEN <<>>
    ELSE <<p>> \o ChainFrom(h, h[p].pNext, seen \cup {p})

\* the direct children of a container: the chain from its pFirst
Children(h, c) == ChainFrom(h, h[c].pFirst, {})

\* the chain of c reaches NULL (it does not run into a cycle)
ChainEnds(h, c) ==
    LET ch == Children(h, c) IN ch = <<>> \/ h[ch[Len(ch)]].pNext = NULL

IsContainer(h, c) == h[c].type \in {JSON_ARRAY, JSON_OBJECT}

\* the nodes one link away from x: its next sibling and, for a container,
\* its first child
Succ(h, x) ==
    ({h[x].pNext} \cup (IF IsContainer(h, x) THEN {h[x].pFirst} ELSE {})) \ {NULL}

RECURSIVE Closure(_, _)
Closure(h, S) ==
    LET T == S \cup UNION {Succ(h, x) : x \in S} IN
    IF T = S THEN S ELSE Closure(h, T)

\* the nodes reached from x by one or more links
ReachFrom(h, x) == Closure(h, Succ(h, x))

\* no node at or below x lies on a cycle
AcyclicFrom(h, x) == \A y \in {x} \cup ReachFrom(h, x) : y \notin ReachFrom(h, y)

\* the tree at r: r and everything below it
SubTree(h, r) ==
    {r} \cup (IF IsContainer(h, r) THEN Closure(h, {h[r].pFirst} \ {NULL}) ELSE {})

\* the links that point at x
Refs(h, x) ==
    {<<i, f>> \in (1..Len(h)) \X {"pFirst", "pNext"} :
        /\ h[i].live
        /\ IF f = "pNext" THEN h[i].pNext = x
           ELSE IsContainer(h, i) /\ h[i].pFirst = x}

\* r is the root of a tree the caller owns: nothing links to r and every
\* other node of the tree is linked exactly once
ProperTree(h, r) ==
    /\ Refs(h, r) = {}
    /\ \A x \in SubTree(h, r) \ {r} : Cardinality(Refs(h, x)) = 1

\* ---------------------------------------------------------------- state
\* the last call: its name, its pointer arguments (c: the container or node,
\* x: the node or index), its other arguments and its result
CallAux(op, c, x, aux, ret) == [op |-> op, c |-> c, x |-> x, aux |-> aux, ret |-> ret]

Call(op, c, x, ret) == CallAux(op, c, x, <<>>, ret)

\* the threads of the process that call JSON_ProcessBuffer
Threads == {1, 2}

\* a thread outside JSON_ProcessBuffer that has not called it yet.  pc: where
\* the thread is (idle; scan: after yy_scan_string; parsed: after yyparse);
\* buf, rc, node: the call's argument and locals; done: the call has returned;
\* mine: root as the thread's yyparse left it; first: the size of the heap
\* before the thread's yyparse; alone: no other thread has taken a step
\* inside JSON_ProcessBuffer since the call began
IdleThread ==
    [pc |-> "idle", buf |-> <<>>, rc |-> 0, node |-> NULL, done |-> FALSE,
     mine |-> NULL, first |-> 0, alone |-> TRUE]

\* heap: the nodes allocated so far; root: the parser's global root;
\* hist[c]: the nodes appended to c by successful calls, in order;
\* parsed: the nodes the grammar allocated; held: the nodes a caller has a
\* pointer to, from a constructor or through the result of a parse;
\* threads[t]: the position and locals of thread t in JSON_ProcessBuffer;
\* yy_buffer: the text the scanner, which the threads share, reads next
Init ==
    /\ heap = <<>>
    /\ root = NULL
    /\ hist = <<>>
    /\ parsed = {}
    /\ held = {}
    /\ last = Call("none", NULL, NULL, EOK)
    /\ threads = [t \in Threads |-> IdleThread]
    /\ yy_buffer = <<>>

\* the pointers a caller may pass: held and not freed, or NULL
LiveIds == {i \in held : heap[i].live}

Ptrs == LiveIds \cup {NULL}

\* the number of successful appends so far
RECURSIVE TotalAdds(_, _)
TotalAdds(hs, i) == IF i > Len(hs) THEN 0 ELSE Len(hs[i]) + TotalAdds(hs, i + 1)

\* a caller obtains a new node from one of the constructors
Alloc(op, node) ==
    /\ Len(heap) < MaxNodes
    /\ heap' = Append(heap, node)
    /\ hist' = Append(hist, <<>>)
    /\ held' = held \cup {Len(heap) + 1}
    /\ UNCHANGED <<threads, yy_buffer>>
    /\ last' = Call(op, NULL, NULL, Len(heap) + 1)
    /\ UNCHANGED <<root, parsed>>

NewArray == \E name \in Names : Alloc("JSON_Array", JSON_Array(name))

NewObject == \E name \in Names : Alloc("JSON_Object", JSON_Object(name))

NewNum == \E name \in Names : Alloc("JSON_Num", JSON_Num(name, 1))

NewBool == \E name \in Names : Alloc("JSON_Bool", JSON_Bool(name, 1))

NewStr == \E name \in Names : \E s \in Payloads : Alloc("JSON_Str", JSON_Str(name, s))

\* the effect of an append on the state: the heap, the result, and the record
\* of the nodes appended to each container
Added(op, r, c, x) ==
    /\ heap' = r.heap
    /\ hist' = IF r.ret = EOK THEN [hist EXCEPT ![c] = Append(@, x)] ELSE hist
    /\ UNCHANGED <<threads, yy_buffer>>
    /\ last' = Call(op, c, x, r.ret)
    /\ UNCHANGED <<root, parsed, held>>

\* a caller appends any node to an Array / to an Object
ArrayAdd ==
    \E c \in LiveIds, x \in LiveIds :
        /\ TotalAdds(hist, 1) < MaxAdds
        /\ heap[c].type = JSON_ARRAY
        /\ Added("JSON_ArrayAdd", JSON_ArrayAdd(heap, c, x), c, x)

ObjectAdd ==
    \E c \in LiveIds, x \in LiveIds :
        /\ TotalAdds(hist, 1) < MaxAdds
        /\ heap[c].type = JSON_OBJECT
        /\ Added("JSON_ObjectAdd", JSON_ObjectAdd(heap, c, x), c, x)

\* a caller passes any pointers, NULL and nodes of the wrong kind included
ArrayAddAny ==
    \E c \in Ptrs, x \in Ptrs :
        /\ TotalAdds(hist, 1) < MaxAdds
        /\ Added("JSON_ArrayAdd", JSON_ArrayAdd(heap, c, x), c, x)

ObjectAddAny ==
    \E c \in Ptrs, x \in Ptrs :
        /\ TotalAdds(hist, 1) < MaxAdds
        /\ Added("JSON_ObjectAdd", JSON_ObjectAdd(heap, c, x), c, x)

\* the documents handed to the parser, as the lexer's token streams:
\* [1]  {"x":1}  [1,true]  [[1]]  {"x":["s"]}  [1  and  [[1]}
Docs ==
    { <<Tok("LBRACKET"), TokNum(<<"1">>), Tok("RBRACKET")>>,
      <<Tok("LBRACE"), TokStr(<<"x">>), Tok("COLON"), TokNum(<<"1">>), Tok("RBRACE")>>,
      <<Tok("LBRACKET"), TokNum(<<"1">>), Tok("COMMA"), Tok("TRUE"), Tok("RBRACKET")>>,
      <<Tok("LBRACKET"), Tok("LBRACKET"), TokNum(<<"1">>), Tok("RBRACKET"), Tok("RBRACKET")>>,
      <<Tok("LBRACE"), TokStr(<<"x">>), Tok("COLON"), Tok("LBRACKET"), TokStr(<<"s">>),
        Tok("RBRACKET"), Tok("RBRACE")>>,
      <<Tok("LBRACKET"), TokNum(<<"1">>)>>,
      <<Tok("LBRACKET"), Tok("LBRACKET"), TokNum(<<"1">>), Tok("RBRACKET"), Tok("RBRACE")>> }

\* a caller parses a document that fits the heap
\* the state after a call of JSON_ProcessBuffer with outcome r
Processed(r) ==
    /\ Len(r.heap) <= MaxNodes
    /\ heap' = r.heap
    /\ root' = r.root
    /\ hist' = hist \o [i \in 1..(Len(r.heap) - Len(heap)) |-> <<>>]
    /\ parsed' = parsed \cup ((Len(heap) + 1)..Len(r.heap))
    /\ held' = IF r.ret = NULL THEN held
                ELSE held \cup {r.ret} \cup ReachFrom(r.heap, r.ret)
    /\ UNCHANGED <<threads, yy_buffer>>
    /\ last' = Call("JSON_ProcessBuffer", NULL, NULL, r.ret)

ProcessBuffer == \E doc \in Docs : Processed(JSON_ProcessBuffer(heap, root, doc))

BuildCore == ProcessBuffer \/ NewArray \/ NewObject \/ NewNum \/ ArrayAdd \/ ObjectAdd

Build == BuildCore \/ NewBool \/ NewStr

\* -------------------------------------------------------------- lookups
DoIndex ==
    \E c \in Ptrs, idx \in 0..MaxNodes :
        /\ UNCHANGED <<threads, yy_buffer>>
        /\ last' = Call("JSON_Index", c, idx, JSON_Index(heap, c, idx))
        /\ UNCHANGED <<heap, root, hist, parsed, held>>

DoAttribute ==
    \E c \in Ptrs, key \in Keys :
        /\ UNCHANGED <<threads, yy_buffer>>
        /\ last' = CallAux("JSON_Attribute", c, NULL, key, JSON_Attribute(heap, c, key))
        /\ UNCHANGED <<heap, root, hist, parsed, held>>

DoFind ==
    \E c \in Ptrs, key \in Keys :
        /\ UNCHANGED <<threads, yy_buffer>>
        /\ last' = CallAux("JSON_Find", c, NULL, key, JSON_Find(heap, c, key))
        /\ UNCHANGED <<heap, root, hist, parsed, held>>

\* the values the callback returns on its first two invocations
FnReturns == [1..2 -> {EOK, 2, 5}]

DoIterate ==
    \E c \in Ptrs, fnNull \in BOOLEAN, rcs \in FnReturns :
        LET r == JSON_Iterate(heap, c, fnNull, rcs) IN
        /\ UNCHANGED <<threads, yy_buffer>>
        /\ last' = CallAux("JSON_Iterate", c, IF fnNull THEN 0 ELSE 1, r.calls, r.ret)
        /\ UNCHANGED <<heap, root, hist, parsed, held>>

\* a caller releases a tree it owns, or passes NULL
DoFree ==
    \E r \in Ptrs :
        /\ r # NULL => ProperTree(heap, r)
        /\ LET f == JSON_Free(heap, r) IN
           /\ heap' = f.heap
           /\ UNCHANGED <<threads, yy_buffer>>
           /\ last' = CallAux("JSON_Free", r, NULL, f.log, EOK)
        /\ UNCHANGED <<root, hist, parsed, held>>

\* the document of the end-to-end test:  {"a":1,"b":[true,false,"x"]}
EndToEndDoc ==
    <<"{", "\"", "a", "\"", ":", "1", ",", "\"", "b", "\"", ":", "[",
        "t", "r", "u", "e", ",", "f", "a", "l", "s", "e", ",", "\"",
        "x", "\"", "]", "}">>

\* the buffers handed to JSON_ProcessBuffer as text: the end-to-end document
\* and  [-82]  [95060308549]  [65534]  [false]  [1.5]
TextDocs ==
    { EndToEndDoc,
      <<"[", "-", "8", "2", "]">>,
      <<"[", "9", "5", "0", "6", "0", "3", "0", "8", "5", "4", "9", "]">>,
      <<"[", "6", "5", "5", "3", "4", "]">>,
      <<"[", "f", "a", "l", "s", "e", "]">>,
      <<"[", "1", ".", "5", "]">> }

\* the largest heap a parse of a text document may leave
MaxDocNodes == 6

\* the state after JSON_ProcessBuffer( buf ) with outcome r
ProcessedText(buf, r) ==
    /\ Len(r.heap) <= MaxDocNodes
    /\ heap' = r.heap
    /\ root' = r.root
    /\ hist' = hist \o [i \in 1..(Len(r.heap) - Len(heap)) |-> <<>>]
    /\ parsed' = parsed \cup ((Len(heap) + 1)..Len(r.heap))
    /\ held' = IF r.ret = NULL THEN held
                ELSE held \cup {r.ret} \cup ReachFrom(r.heap, r.ret)
    /\ UNCHANGED <<threads, yy_buffer>>
    /\ last' = CallAux("JSON_ProcessBuffer", NULL, NULL, buf, r.ret)

ParseText == \E buf \in TextDocs : ProcessedText(buf, ProcessText(heap, root, buf))

\* a caller prints a node it holds, or NULL, to an open stream; x records
\* the comma argument and aux the characters written
DoPrint ==
    \E json \in Ptrs, comma \in BOOLEAN, ub \in PrintfOutcomes :
        /\ json # NULL => AcyclicFrom(heap, json)
        /\ UNCHANGED <<threads, yy_buffer>>
        /\ last' = CallAux("JSON_Print", json, IF comma THEN 1 ELSE 0,
                           JSON_Print(heap, json, comma, ub), NULL)
        /\ UNCHANGED <<heap, root, hist, parsed, held>>

\* the state after printing json as t1, parsing t1 with outcome r and
\* printing the node the parse returned; aux records both texts
Reprinted(json, ub, t1, r) ==
    /\ Len(r.heap) <= MaxNodes + MaxNodes
    /\ heap' = r.heap
    /\ root' = r.root
    /\ hist' = hist \o [i \in 1..(Len(r.heap) - Len(heap)) |-> <<>>]
    /\ parsed' = parsed \cup ((Len(heap) + 1)..Len(r.heap))
    /\ held' = IF r.ret = NULL THEN held
                ELSE held \cup {r.ret} \cup ReachFrom(r.heap, r.ret)
    /\ UNCHANGED <<threads, yy_buffer>>
    /\ last' = CallAux("RoundTrip", json, NULL,
                       <<t1, JSON_Print(r.heap, r.ret, FALSE, ub)>>, r.ret)

Reparsed(json, ub, t1) == Reprinted(json, ub, t1, ProcessText(heap, root, t1))

\* a caller prints a tree built by the constructors, parses the text and
\* prints the result
DoRoundTrip ==
    \E json \in LiveIds, ub \in PrintfOutcomes :
        /\ parsed = {}
        /\ AcyclicFrom(heap, json)
        /\ Reparsed(json, ub, JSON_Print(heap, json, FALSE, ub))

\* the pieces of the quoted literals handed to get_charstr: a plain
\* character, or a backslash and the character after it
StrUnits ==
    {[esc |-> FALSE, ch |-> c] : c \in {"a", "b", "c"}}
    \cup {[esc |-> TRUE, ch |-> c] : c \in {"\\", "0", "r", "n", "t", "'", "\"", "q"}}

\* the characters of the pieces us, as they stand between the quotes
RECURSIVE UnitsText(_)
UnitsText(us) ==
    IF us = <<>> THEN <<>>
    ELSE (IF Head(us).esc THEN <<"\\", Head(us).ch>> ELSE <<Head(us).ch>>)
         \o UnitsText(Tail(us))

\* the literal the lexer's {charstr} matches for the pieces us
QuotedText(us) == <<"\"">> \o UnitsText(us) \o <<"\"">>

\* the pieces of the literal of the last call of get_charstr
LastUnits == IF last.op = "get_charstr" THEN last.aux[1] ELSE <<>>

\* the state after get_charstr on the literal of the pieces us: aux records
\* the pieces and the string returned
Decoded(us) ==
    /\ UNCHANGED <<threads, yy_buffer>>
    /\ last' = CallAux("get_charstr", NULL, NULL,
                       <<us, get_charstr(Str(QuotedText(us)))>>, NULL)
    /\ UNCHANGED <<heap, root, hist, parsed, held>>

\* a caller decodes a literal one piece longer than the last one
DecodeStr ==
    \E u \in StrUnits :
        /\ last.op \in {"none", "get_charstr"}
        /\ Len(LastUnits) < MaxUnits
        /\ Decoded(Append(LastUnits, u))

\* the buffers handed to JSON_ProcessBuffer, accepted and rejected:
\* [1]  {"x":1}  [1,true]  {"ch":1,"x":[2]}  []  {}
\* [[]]  [1,]  {"x":1,}  [1  [[1]}
BufDocs ==
    {
      <<"[", "1", "]">>,
      <<"{", "\"", "x", "\"", ":", "1", "}">>,
      <<"[", "1", ",", "t", "r", "u", "e", "]">>,
      <<"{", "\"", "c", "h", "\"", ":", "1", ",", "\"", "x", "\"", ":",
        "[", "2", "]", "}">>,
      <<"[", "]">>,
      <<"{", "}">>,
      <<"[", "[", "]", "]">>,
      <<"[", "1", ",", "]">>,
      <<"{", "\"", "x", "\"", ":", "1", ",", "}">>,
      <<"[", "1">>,
      <<"[", "[", "1", "]", "}">> }

\* JNode *JSON_ProcessBuffer( char *buf ) with buf NULL or a string
ProcessBufferOpt(h, r, buf) ==
    IF buf # NOSTR THEN ProcessText(h, r, buf[1])
    ELSE [heap |-> h, root |-> r, ret |-> NULL]

\* the state after JSON_ProcessBuffer( buf ) with outcome r, buf NULL or a
\* string; aux records buf
ProcessedBuf(buf, r) ==
    /\ Len(r.heap) <= MaxDocNodes
    /\ heap' = r.heap
    /\ root' = r.root
    /\ hist' = hist \o [i \in 1..(Len(r.heap) - Len(heap)) |-> <<>>]
    /\ parsed' = parsed \cup ((Len(heap) + 1)..Len(r.heap))
    /\ held' = IF r.ret = NULL THEN held
                ELSE held \cup {r.ret} \cup ReachFrom(r.heap, r.ret)
    /\ UNCHANGED <<threads, yy_buffer>>
    /\ last' = CallAux("JSON_ProcessBuffer", NULL, NULL, buf, r.ret)

ParseBuf ==
    \E buf \in {NOSTR} \cup {Str(d) : d \in BufDocs} :
        ProcessedBuf(buf, ProcessBufferOpt(heap, root, buf))

\* the state after a call of JSON_Process with outcome r; aux records whether
\* the file was opened and the result of yyparse
ProcessedFile(opened, r) ==
    /\ Len(r.heap) <= MaxNodes
    /\ heap' = r.heap
    /\ root' = r.root
    /\ hist' = hist \o [i \in 1..(Len(r.heap) - Len(heap)) |-> <<>>]
    /\ parsed' = parsed \cup ((Len(heap) + 1)..Len(r.heap))
    /\ held' = IF r.ret = NULL THEN held
                ELSE held \cup {r.ret} \cup ReachFrom(r.heap, r.ret)
    /\ UNCHANGED <<threads, yy_buffer>>
    /\ last' = CallAux("JSON_Process", NULL, NULL,
                       <<opened, r.rc, r.opened, r.closed>>, r.ret)

\* a caller parses a file: one that cannot be opened, or one that holds one
\* of the documents
ProcessFile ==
    \E opened \in BOOLEAN, doc \in Docs :
        ProcessedFile(opened, JSON_Process(heap, root, opened, doc))

\* the state after a call of JSON_Parse with outcome r; aux records the
\* arguments, the result of yyparse and the streams opened and closed
ParsedFile(in, out, r) ==
    /\ Len(r.heap) <= MaxNodes
    /\ heap' = r.heap
    /\ root' = r.root
    /\ hist' = hist \o [i \in 1..(Len(r.heap) - Len(heap)) |-> <<>>]
    /\ parsed' = parsed \cup ((Len(heap) + 1)..Len(r.heap))
    /\ UNCHANGED <<threads, yy_buffer>>
    /\ last' = CallAux("JSON_Parse", NULL, NULL,
                       [in |-> in, out |-> out, rc |-> r.rc,
                        opened |-> r.opened, closed |-> r.closed], r.ret)
    /\ UNCHANGED held

\* a caller runs JSON_Parse on an input and an output file name
ParseFile ==
    \E in \in {"null", "fail", "ok"}, out \in {"null", "fail", "ok"}, doc \in Docs :
        ParsedFile(in, out, JSON_Parse(heap, root, in, out, doc))

\* ---------------------------------------------------------- specifications
\* construction, appends and parses
\* the integer literals handed to JSON_ParseNumber, by sign and digits: the
\* values around the limits of each width, and two from the test input
NumInputs ==
    { Pos(<<0>>), Pos(<<6, 5, 5, 3, 4>>), Pos(<<6, 5, 5, 3, 5>>),
      Pos(<<4, 2, 9, 4, 9, 6, 7, 2, 9, 4>>), Pos(<<4, 2, 9, 4, 9, 6, 7, 2, 9, 5>>),
      Pos(<<9, 5, 0, 6, 0, 3, 0, 8, 5, 4, 9>>), ULLONG_MAX,
      Neg(<<0>>), Neg(<<8, 2>>), Neg(<<3, 2, 7, 6, 7>>), Neg(<<3, 2, 7, 6, 8>>),
      Neg(<<2, 1, 4, 7, 4, 8, 3, 6, 4, 7>>), Neg(<<2, 1, 4, 7, 4, 8, 3, 6, 4, 8>>),
      LLONG_MIN }

\* the text of a literal, as the lexer's {num} matches it
Literal(in) ==
    (IF in.neg THEN <<"-">> ELSE <<>>) \o [i \in 1..Len(in.mag) |-> Digits[in.mag[i] + 1]]

\* a caller obtains a node from JSON_ParseNumber: ins is empty for a NULL
\* numstr, and holds the literal otherwise
ParsedNumber(name, ins) ==
    /\ Len(heap) < MaxNodes
    /\ heap' = Append(heap, JSON_ParseNumber(name,
                         IF ins = <<>> THEN NOSTR ELSE Str(Literal(ins[1]))))
    /\ hist' = Append(hist, <<>>)
    /\ held' = held \cup {Len(heap) + 1}
    /\ UNCHANGED <<threads, yy_buffer>>
    /\ last' = CallAux("JSON_ParseNumber", NULL, NULL, ins, Len(heap) + 1)
    /\ UNCHANGED <<root, parsed>>

ParseNumber ==
    \E name \in Names : \E ins \in {<<>>} \cup {<<in>> : in \in NumInputs} :
        ParsedNumber(name, ins)

Next == Build

Spec == Init /\ [][Next]_vars

NextIndex == BuildCore \/ DoIndex

SpecIndex == Init /\ [][NextIndex]_vars

\* appends with any arguments
NextErr ==
    \/ ProcessBuffer \/ NewArray \/ NewObject \/ NewNum
    \/ ArrayAddAny \/ ObjectAddAny

SpecErr == Init /\ [][NextErr]_vars

NextAttr == BuildCore \/ DoAttribute

SpecAttr == Init /\ [][NextAttr]_vars

NextFind == BuildCore \/ NewBool \/ DoFind

SpecFind == Init /\ [][NextFind]_vars

NextIter == BuildCore \/ DoIterate

SpecIter == Init /\ [][NextIter]_vars

NextNum == ParseNumber

SpecNum == Init /\ [][NextNum]_vars

NextEnd == ParseText \/ DoPrint

SpecEnd == Init /\ [][NextEnd]_vars

\* construction by the constructors and appends alone
Construct ==
    \/ NewArray \/ NewObject \/ NewNum \/ NewBool \/ NewStr
    \/ ArrayAdd \/ ObjectAdd

NextPrint == Construct \/ DoPrint

SpecPrint == Init /\ [][NextPrint]_vars

NextTrip == Construct \/ DoRoundTrip

SpecTrip == Init /\ [][NextTrip]_vars

NextStr == DecodeStr

SpecStr == Init /\ [][NextStr]_vars

NextFile == BuildCore \/ ProcessFile

SpecFile == Init /\ [][NextFile]_vars

NextBuf == ParseBuf

SpecBuf == Init /\ [][NextBuf]_vars

NextParse == ParseFile \/ ProcessFile

SpecParse == Init /\ [][NextParse]_vars

\* ------------------------------------------------------------- getters
\* the constructors, for an object and for members named x of each kind
\* (JSON_Num, through NewNum, also makes a member without a name)
NewGetObject == Alloc("JSON_Object", JSON_Object(NOSTR))

NewGetBool == Alloc("JSON_Bool", JSON_Bool(Str(<<"x">>), 1))

NewGetStr == Alloc("JSON_Str", JSON_Str(Str(<<"x">>), Str(<<"s">>)))

NewGetFloat == Alloc("JSON_Float", JSON_Float(Str(<<"x">>), atof(<<"1", ".", "5">>)))

\* the names asked of the getters
GetKeys == Names

\* the documents whose members the getters read:
\* {"x":1}  {"x":70000}  {"x":"s","x":1.5,"x":true}
GetDocs ==
    { <<"{", "\"", "x", "\"", ":", "1", "}">>,
      <<"{", "\"", "x", "\"", ":", "7", "0", "0", "0", "0", "}">>,
      <<"{", "\"", "x", "\"", ":", "\"", "s", "\"", ",", "\"", "x", "\"", ":",
        "1", ".", "5", ",", "\"", "x", "\"", ":", "t", "r", "u", "e", "}">> }

\* a caller parses one document before it builds anything
ParseGet ==
    \E buf \in GetDocs :
        /\ heap = <<>>
        /\ ProcessedText(buf, ProcessText(heap, root, buf))

\* the locations handed to JSON_GetNum / JSON_GetFloat as pVal: a null
\* pointer, or a variable holding 7
NumLocs == {<<>>, <<[neg |-> FALSE, mag |-> <<7>>]>>}

FloatLocs == {<<>>, <<[int |-> [neg |-> FALSE, mag |-> <<7>>], frac |-> <<>>]>>}

\* the record of a getter call: aux holds the name, the location before and
\* after the call, the way the call ended and the attribute it stopped at
Got(op, c, name, pVal, r, val) ==
    /\ UNCHANGED <<threads, yy_buffer>>
    /\ last' = CallAux(op, c, NULL,
                       [name |-> name, pVal |-> pVal, out |-> r.out,
                        node |-> r.node, val |-> val], r.ret)
    /\ UNCHANGED <<heap, root, hist, parsed, held>>

DoGetStr ==
    \E c \in Ptrs, name \in GetKeys, ub \in StrcmpOutcomes :
        Got("JSON_GetStr", c, name, <<>>, JSON_GetStr(heap, c, name, ub), <<>>)

DoGetBool ==
    \E c \in Ptrs, name \in GetKeys, ub \in StrcmpOutcomes :
        Got("JSON_GetBool", c, name, <<>>, JSON_GetBool(heap, c, name, ub), <<>>)

GotVal(op, c, name, pVal, r) == Got(op, c, name, pVal, r, r.val)

DoGetNum ==
    \E c \in Ptrs, name \in GetKeys, pVal \in NumLocs, ub \in StrcmpOutcomes :
        GotVal("JSON_GetNum", c, name, pVal, JSON_GetNum(heap, c, name, pVal, ub))

DoGetFloat ==
    \E c \in Ptrs, name \in GetKeys, pVal \in FloatLocs, ub \in StrcmpOutcomes :
        GotVal("JSON_GetFloat", c, name, pVal, JSON_GetFloat(heap, c, name, pVal, ub))

NextGet ==
    \/ NewGetObject \/ NewNum \/ NewGetBool \/ NewGetStr \/ NewGetFloat
    \/ ObjectAdd
    \/ ParseGet
    \/ DoGetStr \/ DoGetBool \/ DoGetNum \/ DoGetFloat

SpecGet == Init /\ [][NextGet]_vars

\* ------------------------------------------------------------- threads
\* JSON_ProcessBuffer called by two threads of one process.  A step is
\* yy_scan_string, yyparse, or the rest of the function; root and the
\* scanner's buffer are shared, rc and node are locals.  (Two yyparse calls
\* that overlap in time race on every variable of the parser and the
\* scanner; the steps here interleave whole yyparse calls only.)
CallDocs ==
    { <<"[", "1", "]">>,
      <<"{", "\"", "x", "\"", ":", "1", "}">>,
      <<"[", "1", ",", "]">> }

\* the largest heap the calls of the threads may leave
MaxCallNodes == 6

\* thread t takes a step that leaves it as rec: a thread inside
\* JSON_ProcessBuffer is then no longer alone
Step(t, rec) ==
    threads' = [u \in Threads |->
                   IF u = t THEN rec
                   ELSE IF threads[u].pc # "idle"
                        THEN [threads[u] EXCEPT !.alone = FALSE]
                        ELSE threads[u]]

\* buffer = yy_scan_string( buf ): the scanner reads buf from now on
CallScan ==
    \E t \in Threads, buf \in CallDocs :
        /\ threads[t].pc = "idle"
        /\ Step(t, [IdleThread EXCEPT
                        !.pc = "scan", !.buf = buf,
                        !.alone = \A u \in Threads \ {t} : threads[u].pc = "idle"])
        /\ yy_buffer' = buf
        /\ last' = CallAux("yy_scan_string", t, NULL, buf, NULL)
        /\ UNCHANGED <<heap, root, hist, parsed, held>>

\* the state after thread t's  rc = yyparse()  with outcome p
Yyparsed(t, p) ==
    /\ Len(p.ps.heap) <= MaxCallNodes
    /\ heap' = p.ps.heap
    /\ root' = p.ps.root
    /\ hist' = hist \o [i \in 1..(Len(p.ps.heap) - Len(heap)) |-> <<>>]
    /\ parsed' = parsed \cup ((Len(heap) + 1)..Len(p.ps.heap))
    /\ Step(t, [threads[t] EXCEPT !.pc = "parsed", !.rc = p.rc,
                                  !.mine = p.ps.root, !.first = Len(heap)])
    /\ yy_buffer' = <<>>
    /\ last' = CallAux("yyparse", t, NULL, yy_buffer, p.rc)
    /\ UNCHANGED held

\* rc = yyparse(): the parser reads what the scanner's buffer holds
CallParse ==
    \E t \in Threads :
        /\ threads[t].pc = "scan"
        /\ Yyparsed(t, yyparse(heap, root, yylex(yy_buffer, 1)))

\* node = root without the test of rc
return_node_always(rc, r, mine) == r

\* if ( rc == 0 ) { node = root; }
return_node(rc, r, mine) == IF rc = 0 THEN r ELSE NULL

\* the state after thread t returns node
Returned(t, node) ==
    /\ Step(t, [threads[t] EXCEPT !.pc = "idle", !.node = node, !.done = TRUE])
    /\ yy_buffer' = <<>>
    /\ held' = IF node = NULL THEN held
                ELSE held \cup {node} \cup ReachFrom(heap, node)
    /\ last' = CallAux("JSON_ProcessBuffer", t, NULL, threads[t].buf, node)
    /\ UNCHANGED <<heap, root, hist, parsed>>

\* the test of rc, node = root, yy_delete_buffer, yylex_destroy and return
CallReturn ==
    \E t \in Threads :
        /\ threads[t].pc = "parsed"
        /\ Returned(t, return_node(threads[t].rc, root, threads[t].mine))

NextThreads == CallScan \/ CallParse \/ CallReturn

SpecThreads == Init /\ [][NextThreads]_vars

NextFree == Build \/ DoFree

SpecFree == Init /\ [][NextFree]_vars

\* ------------------------------------------------------- claim helpers
\* the first node of the sequence ch whose name is non-null and equal to key
FirstNamed(h, ch, key) ==
    LET hits == {i \in 1..Len(ch) : h[ch[i]].name # NOSTR /\ h[ch[i]].name = key} IN
    IF hits = {} THEN NULL
    ELSE ch[CHOOSE i \in hits : \A j \in hits : i <= j]

\* the nodes of the tree at x in pre-order (for an acyclic x)
RECURSIVE PreOrder(_, _), PreOrderAll(_, _)
PreOrder(h, x) ==
    <<x>> \o (IF IsContainer(h, x) THEN PreOrderAll(h, Children(h, x)) ELSE <<>>)

PreOrderAll(h, xs) ==
    IF xs = <<>> THEN <<>> ELSE PreOrder(h, Head(xs)) \o PreOrderAll(h, Tail(xs))

\* how often x was appended, over all containers
Uses(x) ==
    LET occ == {<<c, i>> \in NodeIds \X (1..MaxAdds) : i <= Len(hist[c]) /\ hist[c][i] = x}
    IN  Cardinality(occ)

\* c came from a constructor and every node appended to it came from a
\* constructor and was appended exactly once, to c
FreshRun(c) ==
    /\ c \notin parsed
    /\ \A i \in 1..Len(hist[c]) : hist[c][i] \notin parsed /\ Uses(hist[c][i]) = 1

\* ------------------------------------------------------------------ C1
\* C1: after n distinct constructed nodes have been appended one at a time with
\* JSON_ArrayAdd to an array made by JSON_Array, JSON_Index(array, i) is the
\* i-th appended node for 0 <= i < n and JSON_Index(array, n) is NULL.
C1_AppendThenIndex ==
    \A a \in NodeIds :
        (heap[a].type = JSON_ARRAY /\ FreshRun(a)) =>
            /\ \A i \in 1..Len(hist[a]) : JSON_Index(heap, a, i - 1) = hist[a][i]
            /\ JSON_Index(heap, a, Len(hist[a])) = NULL
            /\ (last.op = "JSON_Index" /\ last.c = a) =>
                   last.ret = IF last.x < Len(hist[a]) THEN hist[a][last.x + 1] ELSE NULL

C1_Witness ==
    /\ last.op = "JSON_Index" /\ last.c # NULL
    /\ heap[last.c].type = JSON_ARRAY /\ FreshRun(last.c)
    /\ Len(hist[last.c]) = 2 /\ last.x = 1
    /\ last.ret = hist[last.c][2]

\* ------------------------------------------------------------------ C2
\* C2: in every Array and Object the count n is the number of nodes on the
\* chain from pFirst, pLast is the last node of that chain, and pLast->pNext
\* is NULL.
C2_CountMatchesChain ==
    \A c \in NodeIds :
        IsContainer(heap, c) =>
            LET ch == Children(heap, c) IN
            /\ heap[c].n = Len(ch)
            /\ heap[c].pLast = IF ch = <<>> THEN NULL ELSE ch[Len(ch)]
            /\ heap[c].pLast # NULL => heap[heap[c].pLast].pNext = NULL

\* ------------------------------------------------------------------ C3
AddOps == {"JSON_ArrayAdd", "JSON_ObjectAdd"}

KindOf(op) == IF op = "JSON_ArrayAdd" THEN JSON_ARRAY ELSE JSON_OBJECT

\* C3: an append returns EINVAL when the container or the node is NULL and
\* ENOTSUP when both are non-null and the container is of the wrong kind; an
\* append that returns anything but EOK leaves the container's pFirst, pLast
\* and n and every node's pNext as they were.
C3_AddErrors ==
    [][ last'.op \in AddOps =>
          LET c == last'.c
              x == last'.x
          IN  /\ (c = NULL \/ x = NULL) => last'.ret = EINVAL
              /\ (c # NULL /\ x # NULL /\ heap[c].type # KindOf(last'.op))
                     => last'.ret = ENOTSUP
              /\ last'.ret # EOK =>
                     /\ Len(heap') = Len(heap)
                     /\ \A i \in NodeIds : heap'[i].pNext = heap[i].pNext
                     /\ c # NULL => /\ heap'[c].pFirst = heap[c].pFirst
                                    /\ heap'[c].pLast = heap[c].pLast
                                    /\ heap'[c].n = heap[c].n ]_vars

C3_Witness ==
    /\ last.op = "JSON_ObjectAdd" /\ last.ret = ENOTSUP
    /\ last.c # NULL /\ last.x # NULL
    /\ heap[last.c].type = JSON_ARRAY /\ heap[last.c].pFirst # NULL

\* ------------------------------------------------------------------ C4
\* no node points at x
Unlinked(h, x) ==
    \A i \in 1..Len(h) : h[i].pFirst # x /\ h[i].pNext # x /\ h[i].pLast # x

\* C4: on every reachable Array (Object), parsed ones included, JSON_ArrayAdd
\* (JSON_ObjectAdd) of a constructed node that is not linked anywhere returns EOK
\* and the node is then the last node of the container's chain.
C4_AppendAlwaysSucceeds ==
    [][ (/\ last'.op \in AddOps
         /\ last'.c # NULL /\ last'.x # NULL /\ last'.x \notin parsed
         /\ heap[last'.c].type = KindOf(last'.op)
         /\ Unlinked(heap, last'.x))
        => /\ last'.ret = EOK
           /\ LET ch == Children(heap', last'.c) IN
              ch # <<>> /\ ch[Len(ch)] = last'.x ]_vars

\* ------------------------------------------------------------------ C5
\* C5: every direct child of every Object has a non-null name.
C5_MembersNamed ==
    \A o \in NodeIds :
        heap[o].type = JSON_OBJECT =>
            \A i \in 1..Len(Children(heap, o)) : heap[Children(heap, o)[i]].name # NOSTR

\* ------------------------------------------------------------------ C6
\* C6: JSON_Attribute(object, key) returns the first node on the object's
\* chain whose name equals key; it returns NULL when object or key is NULL,
\* when object is not an Object, and when the chain ends without such a node
\* (a chain that never ends and holds no such node is searched for ever).
C6_AttributeFirstMatch ==
    last.op = "JSON_Attribute" =>
        LET c == last.c
            key == last.aux
        IN  IF c = NULL \/ key = NOSTR THEN last.ret = NULL
            ELSE IF heap[c].type # JSON_OBJECT THEN last.ret = NULL
            ELSE LET m == FirstNamed(heap, Children(heap, c), key) IN
                 IF m # NULL THEN last.ret = m
                 ELSE IF ChainEnds(heap, c) THEN last.ret = NULL
                 ELSE last.ret = DIVERGE

\* two members carry the key and a third, nested below, too: the first wins
C6_Witness ==
    /\ last.op = "JSON_Attribute" /\ last.c # NULL /\ last.aux # NOSTR
    /\ heap[last.c].type = JSON_OBJECT
    /\ LET ch == Children(heap, last.c) IN
       /\ Len(ch) = 2
       /\ heap[ch[1]].name = last.aux /\ heap[ch[2]].name = last.aux
       /\ last.ret = ch[1]

\* ------------------------------------------------------------------ C7
\* C7: for a root without siblings whose tree has no cycle, JSON_Find(root,
\* key) returns the first node in pre-order whose name equals key, of
\* whatever kind, and NULL when there is none; it returns NULL when root or
\* key is NULL.
C7_FindPreOrder ==
    last.op = "JSON_Find" =>
        LET c == last.c
            key == last.aux
        IN  IF c = NULL \/ key = NOSTR THEN last.ret = NULL
            ELSE (heap[c].pNext = NULL /\ AcyclicFrom(heap, c)) =>
                     last.ret = FirstNamed(heap, PreOrder(heap, c), key)

\* the node found is a grandchild of the root, and the root has no such child
C7_Witness ==
    /\ last.op = "JSON_Find" /\ last.c # NULL /\ last.aux # NOSTR
    /\ heap[last.c].pNext = NULL /\ AcyclicFrom(heap, last.c)
    /\ IsContainer(heap, last.c)
    /\ last.ret # NULL /\ last.ret # last.c
    /\ \A i \in 1..Len(Children(heap, last.c)) : Children(heap, last.c)[i] # last.ret

\* ------------------------------------------------------------------ C8
\* the value JSON_Iterate is to return for the invocations made
LastFailure(calls) ==
    LET bad == {i \in 1..Len(calls) : calls[i][2] # EOK} IN
    IF bad = {} THEN EOK
    ELSE calls[CHOOSE i \in bad : \A j \in bad : j <= i][2]

\* C8: for a non-null Array whose chain ends and a non-null fn, JSON_Iterate
\* invokes fn once on each direct child in order, whatever fn returns, and
\* returns EOK if every invocation returned EOK and otherwise the value of the
\* last invocation that did not; it returns EINVAL for a NULL array or fn and
\* ENOTSUP for a node that is no Array, without invoking fn.
C8_Iterate ==
    last.op = "JSON_Iterate" =>
        LET c == last.c
            calls == last.aux
        IN  IF c = NULL \/ last.x = 0 THEN last.ret = EINVAL /\ calls = <<>>
            ELSE IF heap[c].type # JSON_ARRAY THEN last.ret = ENOTSUP /\ calls = <<>>
            ELSE ChainEnds(heap, c) =>
                   /\ [i \in 1..Len(calls) |-> calls[i][1]] = Children(heap, c)
                   /\ last.ret = LastFailure(calls)

\* fn failed on the first of two children, was still invoked on the second,
\* and the result is the first invocation's value
C8_Witness ==
    /\ last.op = "JSON_Iterate" /\ last.c # NULL /\ last.x = 1
    /\ heap[last.c].type = JSON_ARRAY /\ ChainEnds(heap, last.c)
    /\ Len(last.aux) = 2
    /\ last.aux[1][2] = 5 /\ last.aux[2][2] = EOK
    /\ last.ret = 5

\* ------------------------------------------------------------------ C9
\* how often the log records event e for node x
Count(log, e, x) == Cardinality({i \in 1..Len(log) : log[i] = Ev(e, x)})

\* C9: JSON_Free(root) on a tree in which every node is linked exactly once
\* releases every node of the tree, every non-null name and every string
\* payload exactly once, releases nothing outside the tree, and reads a
\* child's pNext only before it releases that child.
C9_FreeReleasesTree ==
    [][ (last'.op = "JSON_Free" /\ last'.c # NULL /\ ProperTree(heap, last'.c)) =>
          LET log == last'.aux
              T == SubTree(heap, last'.c)
          IN  /\ \A x \in T :
                    /\ Count(log, "free_node", x) = 1
                    /\ Count(log, "free_name", x) = IF heap[x].name # NOSTR THEN 1 ELSE 0
                    /\ Count(log, "free_str", x) =
                           IF heap[x].vtype = JVARTYPE_STR /\ heap[x].str # NOSTR
                           THEN 1 ELSE 0
                    /\ ~heap'[x].live
              /\ \A i \in 1..Len(log) : log[i].node \in T
              /\ \A x \in NodeIds \ T : heap'[x] = heap[x]
              /\ \A i, j \in 1..Len(log) :
                    (log[i].ev = "read_next" /\ log[j] = Ev("free_node", log[i].node))
                        => i < j ]_vars

\* a freed tree of three levels (a child released while its parent, itself a
\* child, is being released) with a named node and a string payload
C9_Witness ==
    /\ last.op = "JSON_Free" /\ last.c # NULL
    /\ Cardinality({i \in 1..Len(last.aux) : last.aux[i].ev = "free_node"}) = 3
    /\ \E i \in 1..Len(last.aux) : last.aux[i].ev = "free_str"
    /\ \E i \in 1..Len(last.aux) : last.aux[i].ev = "free_name"
    /\ \E i, j, k \in 1..Len(last.aux) :
          /\ i < j /\ j < k
          /\ last.aux[i].ev = "read_next" /\ last.aux[j].ev = "read_next"
          /\ last.aux[k] = Ev("free_node", last.aux[i].node)

\* ----------------------------------------------------------------- C10
\* C10: constructor and append calls never produce a cycle: no node is
\* reached from itself along pFirst and pNext links.
C10_NoCycle ==
    parsed = {} => \A x \in NodeIds : x \notin ReachFrom(heap, x)

\* C11: in a heap built by the constructors, JSON_ArrayAdd and JSON_ObjectAdd
\* alone, every node is linked into at most one sibling chain and at most
\* once: at most one pFirst or pNext field points at it.  Heaps with a cycle
\* are left aside, so that sharing alone decides.
C11_OneOwner ==
    (parsed = {} /\ \A y \in NodeIds : y \notin ReachFrom(heap, y))
        => \A x \in NodeIds : Cardinality(Refs(heap, x)) <= 1

\* the value a literal denotes
ValueOf(in) == IF in.mag = <<0>> THEN Pos(<<0>>) ELSE in

\* the byte width of an integer kind
Width(vtype) ==
    CASE vtype \in {JVARTYPE_UINT16, JVARTYPE_INT16} -> 2
      [] vtype \in {JVARTYPE_UINT32, JVARTYPE_INT32} -> 4
      [] vtype \in {JVARTYPE_UINT64, JVARTYPE_INT64} -> 8

\* the kind the stated thresholds give a literal
ThresholdKind(in) ==
    LET n == ValueOf(in) IN
    IF in.neg
    THEN IF Less(Neg(<<3, 2, 7, 6, 8>>), n) /\ Less(n, Pos(<<3, 2, 7, 6, 7>>))
         THEN JVARTYPE_INT16
         ELSE IF Less(Neg(<<2, 1, 4, 7, 4, 8, 3, 6, 4, 8>>), n)
                 /\ Less(n, Pos(<<2, 1, 4, 7, 4, 8, 3, 6, 4, 7>>))
              THEN JVARTYPE_INT32 ELSE JVARTYPE_INT64
    ELSE IF Less(n, Pos(<<6, 5, 5, 3, 5>>)) THEN JVARTYPE_UINT16
         ELSE IF Less(n, Pos(<<4, 2, 9, 4, 9, 6, 7, 2, 9, 5>>)) THEN JVARTYPE_UINT32
         ELSE JVARTYPE_UINT64

\* the last call was JSON_ParseNumber on a literal
ParsedLiteral == last.op = "JSON_ParseNumber" /\ last.aux # <<>>

\* C12: JSON_ParseNumber gives a literal the kind of the stated thresholds
\* and the len of that kind's byte width; 65534 is 16-bit unsigned, 65535 is
\* 32-bit unsigned, -32767 is 16-bit signed and -32768 is 32-bit signed.
C12_Thresholds ==
    ParsedLiteral =>
        LET in == last.aux[1]
            v == heap[last.ret]
        IN  /\ v.type = JSON_VAR
            /\ v.vtype = ThresholdKind(in)
            /\ v.len = Width(v.vtype)
            /\ in = Pos(<<6, 5, 5, 3, 4>>) => v.vtype = JVARTYPE_UINT16
            /\ in = Pos(<<6, 5, 5, 3, 5>>) => v.vtype = JVARTYPE_UINT32
            /\ in = Neg(<<3, 2, 7, 6, 7>>) => v.vtype = JVARTYPE_INT16
            /\ in = Neg(<<3, 2, 7, 6, 8>>) => v.vtype = JVARTYPE_INT32

C12_Witness ==
    /\ ParsedLiteral
    /\ last.aux[1] = Neg(<<3, 2, 7, 6, 8>>)
    /\ heap[last.ret].vtype = JVARTYPE_INT32
    /\ \E i \in NodeIds : heap[i].vtype = JVARTYPE_UINT64 /\ heap[i].len = 8

\* the value n fits the integer kind
Fits(n, vtype) ==
    CASE vtype = JVARTYPE_UINT16 -> ~n.neg /\ Less(n, Pos(<<6, 5, 5, 3, 6>>))
      [] vtype = JVARTYPE_UINT32 -> ~n.neg /\ Less(n, Pos(<<4, 2, 9, 4, 9, 6, 7, 2, 9, 6>>))
      [] vtype = JVARTYPE_UINT64 -> ~n.neg
      [] vtype = JVARTYPE_INT16 ->
            Less(Neg(<<3, 2, 7, 6, 9>>), n) /\ Less(n, Pos(<<3, 2, 7, 6, 8>>))
      [] vtype = JVARTYPE_INT32 ->
            Less(Neg(<<2, 1, 4, 7, 4, 8, 3, 6, 4, 9>>), n)
            /\ Less(n, Pos(<<2, 1, 4, 7, 4, 8, 3, 6, 4, 8>>))
      [] vtype = JVARTYPE_INT64 -> TRUE

\* the integer kinds of a signedness
KindsOf(neg) ==
    IF neg THEN {JVARTYPE_INT16, JVARTYPE_INT32, JVARTYPE_INT64}
    ELSE {JVARTYPE_UINT16, JVARTYPE_UINT32, JVARTYPE_UINT64}

\* C13: JSON_ParseNumber gives a literal the narrowest kind of its signedness
\* that holds its value, and stores exactly that value.
C13_NarrowestKind ==
    ParsedLiteral =>
        LET in == last.aux[1]
            v == heap[last.ret]
        IN  /\ v.vtype \in KindsOf(in.neg)
            /\ Fits(ValueOf(in), v.vtype)
            /\ \A k \in KindsOf(in.neg) :
                  Fits(ValueOf(in), k) => Width(v.vtype) <= Width(k)
            /\ v.val = ValueOf(in)

\* C14: JSON_ParseNumber with a NULL numstr returns NULL.
C14_NullLiteralFails ==
    (last.op = "JSON_ParseNumber" /\ last.aux = <<>>) => last.ret = NULL

\* the text  {"a" : 1,"b" : [true,false,"x"]}
EndToEndText ==
    <<"{", "\"", "a", "\"", " ", ":", " ", "1", ",", "\"", "b", "\"", " ", ":",
      " ", "[", "t", "r", "u", "e", ",", "f", "a", "l", "s", "e", ",", "\"", "x",
      "\"", "]", "}">>

\* C15: JSON_Print( node, fp, false ) of the node JSON_ProcessBuffer returned
\* for  {"a":1,"b":[true,false,"x"]}  writes exactly
\* {"a" : 1,"b" : [true,false,"x"]}, and an unnamed Bool node is written as
\* exactly  true  or  false.
C15_EndToEnd ==
    [][ /\ (/\ last.op = "JSON_ProcessBuffer" /\ last.aux = EndToEndDoc
            /\ last'.op = "JSON_Print" /\ last'.c = last.ret /\ last'.x = 0)
           => last'.aux = EndToEndText
        /\ (/\ last'.op = "JSON_Print" /\ last'.c # NULL /\ last'.x = 0
            /\ heap[last'.c].type = JSON_BOOL /\ heap[last'.c].name = NOSTR)
           => last'.aux \in {<<"t", "r", "u", "e">>, <<"f", "a", "l", "s", "e">>}
      ]_vars

\* C16: for an acyclic tree built by the constructors and appends, the text
\* JSON_Print writes, parsed by JSON_ProcessBuffer and printed again, is the
\* same text.  Stated for a tree whose root is an unnamed Array or Object,
\* the only roots the grammar has.
C16_RoundTrip ==
    (/\ last.op = "RoundTrip"
     /\ IsContainer(heap, last.c) /\ heap[last.c].name = NOSTR)
        => last.aux[2] = last.aux[1]

IntKinds ==
    {JVARTYPE_UINT16, JVARTYPE_INT16, JVARTYPE_UINT32, JVARTYPE_INT32,
     JVARTYPE_UINT64, JVARTYPE_INT64}

\* C17: JSON_Print writes an unnamed Var node of any integer kind as the
\* decimal text of its stored value.
C17_IntegersPrinted ==
    (/\ last.op = "JSON_Print" /\ last.c # NULL /\ last.x = 0
     /\ heap[last.c].type = JSON_VAR /\ heap[last.c].vtype \in IntKinds
     /\ heap[last.c].name = NOSTR)
        => last.aux = DecText(heap[last.c].val)

\* the texts ts with one comma between consecutive ones
RECURSIVE JoinComma(_)
JoinComma(ts) ==
    IF ts = <<>> THEN <<>>
    ELSE IF Len(ts) = 1 THEN ts[1]
    ELSE ts[1] \o <<",">> \o JoinComma(Tail(ts))

\* C18: JSON_Print of a node made by a constructor, whose children were each
\* appended once, writes a comma iff the comma argument is true, then
\* "name" :  iff the name is not NULL, then for a container its opening
\* bracket, the children in the order they were appended with one comma
\* between consecutive children, and its closing bracket.
C18_ContainerLayout ==
    (last.op = "JSON_Print" /\ last.c # NULL /\ FreshRun(last.c)) =>
        LET v == heap[last.c]
            lead == IF last.x = 1 THEN <<",">> ELSE <<>>
            nm == IF v.name # NOSTR
                  THEN <<"\"">> \o v.name[1] \o <<"\"", " ", ":", " ">> ELSE <<>>
            kids == JoinComma([i \in 1..Len(hist[last.c]) |->
                                  JSON_Print(heap, hist[last.c][i], FALSE, "value")])
        IN  CASE v.type = JSON_ARRAY ->
                    last.aux = lead \o nm \o <<"[">> \o kids \o <<"]">>
              [] v.type = JSON_OBJECT ->
                    last.aux = lead \o nm \o <<"{">> \o kids \o <<"}">>
              [] OTHER -> last.aux = lead \o nm \o json_PrintValue(v, "value")

C18_Witness ==
    /\ last.op = "JSON_Print" /\ last.c # NULL /\ FreshRun(last.c)
    /\ heap[last.c].type = JSON_ARRAY /\ Len(hist[last.c]) = 2
    /\ last.x = 1
    /\ last.aux = <<",", "\"", "x", "\"", " ", ":", " ", "[", "1", ",", "1", "]">>

\* the table of escapes: the character a backslash and c stand for
EscapeTable ==
    { <<"\\", "\\">>, <<"0", "NUL">>, <<"r", "\r">>, <<"n", "\n">>,
      <<"t", "\t">>, <<"'", "'">>, <<"\"", "\"">> }

Escaped(c) ==
    IF \E p \in EscapeTable : p[1] = c
    THEN (CHOOSE p \in EscapeTable : p[1] = c)[2]
    ELSE c

\* one output character for each piece of the literal
DecodedUnits(us) == [i \in 1..Len(us) |-> IF us[i].esc THEN Escaped(us[i].ch) ELSE us[i].ch]

\* C19: get_charstr removes the two quotes and writes one character for each
\* plain character (the character itself) and one for each backslash pair
\* (by the table, any other character standing for itself); the string
\* returned is these characters up to the first NUL.  The literal
\* "a\nb\tc" decodes to a, line feed, b, tab, c.
C19_Unescape ==
    last.op = "get_charstr" =>
        LET us == last.aux[1] IN
        /\ charstr_loop(UnitsText(us), 1, 0, <<>>) = DecodedUnits(us)
        /\ last.aux[2] = Str(CString(DecodedUnits(us)))
        /\ ("NUL" \notin {DecodedUnits(us)[i] : i \in 1..Len(us)})
              => last.aux[2] = Str(DecodedUnits(us))

C19_Witness ==
    /\ last.op = "get_charstr"
    /\ UnitsText(last.aux[1]) = <<"a", "\\", "n", "b", "\\", "t", "c">>
    /\ last.aux[2] = Str(<<"a", "\n", "b", "\t", "c">>)

\* C20: JSON_Process returns NULL when the file cannot be opened and when
\* yyparse rejects its content.
C20_ProcessFailureIsNull ==
    (last.op = "JSON_Process" /\ (~last.aux[1] \/ last.aux[2] # 0))
        => last.ret = NULL

\* the node x of a heap with every link moved up by k
Moved(x, k) ==
    [x EXCEPT !.pNext = IF @ = NULL THEN NULL ELSE @ + k,
              !.pFirst = IF @ = NULL THEN NULL ELSE @ + k,
              !.pLast = IF @ = NULL THEN NULL ELSE @ + k]

\* the outcome of JSON_ProcessBuffer on the buffer alone: empty heap, root
\* unset
Alone(buf) == ProcessBufferOpt(<<>>, NULL, buf)

\* C21: JSON_ProcessBuffer returns NULL for a NULL buffer and for a buffer
\* the parser rejects; otherwise it returns the root of the tree built from
\* the buffer, and result and tree are those the same buffer gives in a
\* process that parsed nothing before.
C21_BufferResult ==
    last.op = "JSON_ProcessBuffer" =>
        LET a == Alone(last.aux)
            k == Len(heap) - Len(a.heap)
        IN  /\ last.aux = NOSTR => last.ret = NULL
            /\ a.ret = NULL <=> last.ret = NULL
            /\ a.ret # NULL => last.ret = a.ret + k /\ last.ret = Len(heap)
            /\ \A i \in 1..Len(a.heap) : heap[i + k] = Moved(a.heap[i], k)

C21_Witness ==
    /\ last.op = "JSON_ProcessBuffer"
    /\ last.aux = Str(<<"[", "1">>)
    /\ last.ret = NULL
    /\ root # NULL /\ root < Len(heap)

\* C22: JSON_Parse returns -1 when the input file cannot be opened, when the
\* output file cannot be created and when yyparse rejects the input, and 0
\* only when the input was parsed.
C22_ParseStatus ==
    last.op = "JSON_Parse" =>
        /\ (last.aux.in = "fail" \/ last.aux.out = "fail" \/ last.aux.rc # 0)
              => last.ret = -1
        /\ last.ret = 0 => last.aux.rc = 0

\* the streams a call of JSON_Process or JSON_Parse opened and closed
StreamsOf(l) ==
    IF l.op = "JSON_Parse" THEN [opened |-> l.aux.opened, closed |-> l.aux.closed]
    ELSE [opened |-> l.aux[3], closed |-> l.aux[4]]

\* C23: JSON_Process and JSON_Parse close every stream they open exactly
\* once before they return, and close no stream they did not open.
C23_StreamsClosedOnce ==
    last.op \in {"JSON_Process", "JSON_Parse"} =>
        LET s == StreamsOf(last) IN
        /\ \A f \in s.opened :
              Cardinality({i \in 1..Len(s.closed) : s.closed[i] = f}) = 1
        /\ \A i \in 1..Len(s.closed) : s.closed[i] \in s.opened

\* the token stream has an opening bracket or a comma right before a closing
\* bracket: an empty array or object, or a list with a trailing comma
EmptyOrTrailing(toks) ==
    \E i \in 1..(Len(toks) - 1) :
        /\ toks[i].t \in {"LBRACKET", "LBRACE", "COMMA"}
        /\ toks[i + 1].t \in {"RBRACKET", "RBRACE"}

\* C24: JSON_ProcessBuffer returns NULL for a buffer with an empty array, an
\* empty object or a list with a trailing comma, at top level or nested.
C24_EmptyRejected ==
    (/\ last.op = "JSON_ProcessBuffer" /\ last.aux # NOSTR
     /\ EmptyOrTrailing(yylex(last.aux[1], 1)))
        => last.ret = NULL

C24_Witness ==
    /\ last.op = "JSON_ProcessBuffer"
    /\ last.aux = Str(<<"[", "[", "]", "]">>)
    /\ last.ret = NULL
    /\ \E i \in NodeIds : heap[i].name = Str(<<"c", "h">>)

\* ------------------------------------------------------------- C25, C29
\* the variable types that hold an integer
IntegerTypes ==
    {JVARTYPE_UINT16, JVARTYPE_INT16, JVARTYPE_UINT32, JVARTYPE_INT32,
     JVARTYPE_UINT64, JVARTYPE_INT64}

\* the members of ch named key that hold an integer
IntegerMembers(h, ch, key) ==
    {i \in 1..Len(ch) : /\ h[ch[i]].name = key
                        /\ h[ch[i]].type = JSON_VAR
                        /\ h[ch[i]].vtype \in IntegerTypes}

\* C25: JSON_GetNum(object, name, pVal) that returns gives 0 and the value of
\* an integer member named name whenever the object has one, members made by
\* the parser included, and -1 only when it has none.
C25_GetNumAnyInteger ==
    (/\ last.op = "JSON_GetNum" /\ last.aux.out = "return"
     /\ last.c # NULL /\ last.aux.name # NOSTR /\ last.aux.pVal # <<>>
     /\ heap[last.c].type = JSON_OBJECT)
        => LET ch == Children(heap, last.c)
               ints == IntegerMembers(heap, ch, last.aux.name)
           IN  IF ints # {}
               THEN /\ last.ret = 0
                    /\ \E i \in ints : heap[ch[i]].val = last.aux.val[1]
               ELSE last.ret = -1

\* the member is of the kind the getter op reads
KindMatch(op, node) ==
    IF op = "JSON_GetStr" THEN node.type = JSON_VAR /\ node.vtype = JVARTYPE_STR
    ELSE IF op = "JSON_GetBool" THEN node.type = JSON_BOOL
    ELSE IF op = "JSON_GetNum" THEN node.type = JSON_VAR /\ node.vtype = JVARTYPE_UINT32
    ELSE node.type = JSON_VAR /\ node.vtype = JVARTYPE_FLOAT

\* the first node of ch named key and of the kind of op, or NULL
FirstOfKind(h, ch, key, op) ==
    LET hits == {i \in 1..Len(ch) : h[ch[i]].name = key /\ KindMatch(op, h[ch[i]])} IN
    IF hits = {} THEN NULL
    ELSE ch[CHOOSE i \in hits : \A j \in hits : i <= j]

\* the result and the location the getter op leaves for the member m
GetterGives(op, m, pVal) ==
    IF op = "JSON_GetStr"
    THEN last.ret = (IF m = NULL THEN NOSTR ELSE heap[m].str)
    ELSE IF op = "JSON_GetBool"
    THEN last.ret = (IF m = NULL THEN FALSE ELSE heap[m].val.mag # <<0>>)
    ELSE IF op = "JSON_GetNum"
    THEN /\ last.ret = (IF m = NULL THEN -1 ELSE 0)
         /\ last.aux.val = (IF m = NULL THEN pVal ELSE <<heap[m].val>>)
    ELSE /\ last.ret = (IF m = NULL THEN -1 ELSE 0)
         /\ last.aux.val = (IF m = NULL THEN pVal ELSE <<heap[m].f>>)

GetterOps == {"JSON_GetStr", "JSON_GetBool", "JSON_GetNum", "JSON_GetFloat"}

\* the getter's call is one the entry check lets through
GetterChecked ==
    /\ last.c # NULL /\ last.aux.name # NOSTR
    /\ last.op \in {"JSON_GetNum", "JSON_GetFloat"} => last.aux.pVal # <<>>
    /\ heap[last.c].type = JSON_OBJECT

\* C29: on an Object that is not below itself, each typed getter returns the value of
\* the first member with the requested name and the getter's kind, whatever
\* comes before it; without such a member, or on NULL or a node that is not
\* an Object, it returns NULL / false / -1 and leaves *pVal as it was.
C29_GetterFirstOfKind ==
    (last.op \in GetterOps /\ (last.c # NULL => AcyclicFrom(heap, last.c)))
        => /\ last.aux.out = "return"
           /\ GetterGives(last.op,
                          IF GetterChecked
                          THEN FirstOfKind(heap, Children(heap, last.c),
                                           last.aux.name, last.op)
                          ELSE NULL,
                          last.aux.pVal)

\* the same for objects all of whose members have a name
C29_NamedMembers ==
    (/\ last.op \in GetterOps
     /\ last.c # NULL => /\ AcyclicFrom(heap, last.c)
                         /\ \A i \in 1..Len(Children(heap, last.c)) :
                                heap[Children(heap, last.c)[i]].name # NOSTR)
        => C29_GetterFirstOfKind

\* ------------------------------------------------------------------ C26
\* a token as its kind and, for a number or a string, what it stands for
TokItem(tok) ==
    [t |-> tok.t,
     s |-> IF tok.t = "NUM" THEN tok.text
           ELSE IF tok.t = "CHARSTR" THEN get_charstr(Str(tok.text))[1]
           ELSE <<>>]

Item(t) == [t |-> t, s |-> <<>>]

\* the tokens of the text the tree at x was parsed from, read off the tree:
\* children in chain order, each member of an Object behind its name
RECURSIVE TreeItems(_, _), ChildItems(_, _, _, _)
TreeItems(h, x) ==
    IF h[x].type = JSON_ARRAY
    THEN <<Item("LBRACKET")>> \o ChildItems(h, Children(h, x), 1, FALSE)
                              \o <<Item("RBRACKET")>>
    ELSE IF h[x].type = JSON_OBJECT
    THEN <<Item("LBRACE")>> \o ChildItems(h, Children(h, x), 1, TRUE)
                            \o <<Item("RBRACE")>>
    ELSE IF h[x].type = JSON_BOOL
    THEN <<Item(IF h[x].val.mag # <<0>> THEN "TRUE" ELSE "FALSE")>>
    ELSE IF h[x].vtype = JVARTYPE_STR
    THEN <<[t |-> "CHARSTR", s |-> h[x].str[1]]>>
    ELSE <<[t |-> "NUM", s |-> DecText(h[x].val)]>>

ChildItems(h, ch, i, keyed) ==
    IF i > Len(ch) THEN <<>>
    ELSE (IF i > 1 THEN <<Item("COMMA")>> ELSE <<>>)
         \o (IF ~keyed THEN <<>>
             ELSE IF h[ch[i]].name = NOSTR THEN <<Item("NULL"), Item("COLON")>>
             ELSE <<[t |-> "CHARSTR", s |-> h[ch[i]].name[1]], Item("COLON")>>)
         \o TreeItems(h, ch[i])
         \o ChildItems(h, ch, i + 1, keyed)

\* C26: the tree a successful parse returns reads back, container by
\* container and child by child in chain order, as the tokens of the text:
\* the k-th value or attribute is the k-th child, each member's name is its
\* decoded key; every chain ends in NULL and Array elements have no name.
C26_DocumentOrder ==
    (last.op = "JSON_ProcessBuffer" /\ last.ret # NULL)
        => LET toks == yylex(last.aux[1], 1) IN
           /\ TreeItems(heap, last.ret) = [i \in 1..Len(toks) |-> TokItem(toks[i])]
           /\ \A c \in SubTree(heap, last.ret) :
                 IsContainer(heap, c) =>
                     /\ ChainEnds(heap, c)
                     /\ heap[c].type = JSON_ARRAY =>
                            \A i \in 1..Len(Children(heap, c)) :
                                heap[Children(heap, c)[i]].name = NOSTR

\* {"ch":1,"x":[2]} is parsed: ch comes first, x second and last, and the
\* element of the array below x has no name
C26_Witness ==
    /\ last.op = "JSON_ProcessBuffer" /\ last.ret # NULL
    /\ heap[last.ret].type = JSON_OBJECT
    /\ LET ch == Children(heap, last.ret) IN
       /\ Len(ch) = 2
       /\ heap[ch[1]].name = Str(<<"c", "h">>)
       /\ heap[ch[2]].name = Str(<<"x">>)
       /\ heap[ch[2]].type = JSON_ARRAY
       /\ heap[ch[2]].pNext = NULL
       /\ heap[heap[ch[2]].pFirst].name = NOSTR

\* ------------------------------------------------------------------ C27
\* C27: after a successful parse root is the outermost container of the
\* document, also when the document holds nested containers, each of which
\* wrote root in its turn: root is the node returned, nothing links to it,
\* and it reads back as the whole text.
C27_RootOutermost ==
    (last.op = "JSON_ProcessBuffer" /\ last.ret # NULL)
        => LET toks == yylex(last.aux[1], 1) IN
           /\ root = last.ret
           /\ IsContainer(heap, root)
           /\ Refs(heap, root) = {}
           /\ \A c \in SubTree(heap, root) \ {root} : c < root
           /\ Len(TreeItems(heap, root)) = Len(toks)

\* a document with a nested array has been parsed: the array is below root
C27_Witness ==
    /\ last.op = "JSON_ProcessBuffer" /\ last.ret # NULL
    /\ root = last.ret
    /\ \E c \in SubTree(heap, root) \ {root} :
          /\ IsContainer(heap, c)
          /\ c \in parsed

\* ------------------------------------------------------------------ C28
\* the nodes the yyparse of thread t's last call allocated
OwnNodes(t) ==
    IF threads[t].pc = "scan" THEN {}
    ELSE {i \in NodeIds : i > threads[t].first /\ i <= threads[t].mine}

\* C28 (the calls one after the other): a call of JSON_ProcessBuffer during
\* which no other thread is inside the function returns what the call
\* returns in a process of its own: NULL for a text the grammar rejects, and
\* otherwise the root of a tree that its own yyparse built from its own text.
C28_SequentialOwnRoot ==
    \A t \in Threads :
        (threads[t].done /\ threads[t].pc = "idle" /\ threads[t].alone)
            => LET a == Alone(Str(threads[t].buf))
                   node == threads[t].node
               IN  IF a.ret = NULL THEN node = NULL
                   ELSE /\ node # NULL
                        /\ node = threads[t].mine
                        /\ node \in OwnNodes(t)
                        /\ TreeItems(heap, node) = TreeItems(a.heap, a.ret)

\* the call of thread t has returned a node that is not of its own yyparse
CrossReturn(t) ==
    /\ threads[t].done /\ threads[t].pc = "idle"
    /\ ~threads[t].alone
    /\ threads[t].node # NULL
    /\ threads[t].node \notin OwnNodes(t)

\* C28 (the calls interleaved): the call of one thread has returned the root
\* that the other thread's yyparse built from a different text
C28_Interleaved ==
    \E t \in Threads, u \in Threads :
        /\ t # u
        /\ CrossReturn(t)
        /\ threads[u].pc # "scan"
        /\ threads[t].node \in OwnNodes(u)
        /\ threads[u].buf # threads[t].buf
        /\ TreeItems(heap, threads[t].node)
               = [i \in 1..Len(yylex(threads[u].buf, 1)) |->
                      TokItem(yylex(threads[u].buf, 1)[i])]

\* both cases in one state: the call of one thread has returned a node of
\* another call, and a later call of the other thread, alone in the
\* function, has returned the root of its own document
C28_Witness ==
    \E t \in Threads, u \in Threads :
        /\ t # u
        /\ CrossReturn(t)
        /\ threads[u].done /\ threads[u].pc = "idle" /\ threads[u].alone
        /\ threads[u].node # NULL
        /\ threads[u].node = threads[u].mine
        /\ threads[u].node > threads[t].node

\* ------------------------------------------------------------------ C30
\* C30: for a node that is a member of a container and has later siblings,
\* JSON_Find(node, key) returns the first node in pre-order of the subtree
\* at node whose name equals key, and NULL when that subtree holds none:
\* never a later sibling of node or a node below one.
C30_FindWithinSubtree ==
    (/\ last.op = "JSON_Find" /\ last.c # NULL /\ last.aux # NOSTR
     /\ heap[last.c].pNext # NULL
     /\ AcyclicFrom(heap, last.c))
        => /\ last.ret = FirstNamed(heap, PreOrder(heap, last.c), last.aux)
           /\ last.ret # NULL => last.ret \in SubTree(heap, last.c)

====
